---- MODULE Spec2Model ----
(***************************************************************************)
(* quantity-math-js: unit table, prefix table, unit-string parser and      *)
(* formatter (src/units.ts), Dimensions (src/dimensions.ts) and the        *)
(* Quantity conversion engine that the tests in src/unnamed/part_000       *)
(* exercise.                                                               *)
(*                                                                         *)
(* Strings are sequences of characters; a character is a one-element       *)
(* string, with "DOT" standing for U+22C5 and "MU" for U+00B5.             *)
(*                                                                         *)
(* Numbers: a JavaScript number is modelled by the exact rational it       *)
(* stands for.  IEEE-754 rounding is abstracted: the repository's tests    *)
(* compare magnitudes up to a relative tolerance of 1e-7                   *)
(* (part_000:11-34).  The three literals of the tables that are not exact  *)
(* decimals of the intended value are the doubles nearest to it            *)
(* (5.555555555555556e-1 is the double 5/9, 2.553722222222222e+2 is        *)
(* 459.67*5/9 evaluated in doubles, 1.152921504606847e+18 is 2^60, ...);   *)
(* the model keeps the exact ratio.                                        *)
(***************************************************************************)
EXTENDS Integers, Sequences, FiniteSets, TLC

VARIABLES pc, op, arg, res

vars == <<pc, op, arg, res>>

-----------------------------------------------------------------------------
(* Exact rational arithmetic.  A number is (n / d) * PRODUCT p^e[p] over   *)
(* the primes p of AtomSeq, in canonical form: d > 0, gcd(n, d) = 1, n and *)
(* d have no factor in AtomSeq, and zero is [n = 0, d = 1, e = 0].  The    *)
(* factored part keeps the large scales of the tables (1e30, 2^80, the     *)
(* 15-digit mantissas of psi and HP) inside TLC's integers.                *)

AtomSeq == <<2, 3, 5, 7, 11, 19, 31, 73, 97, 127, 193, 389, 1097, 1399, 6073,
             12043, 15083, 16103, 293339, 6619759, 199343951>>

NAtoms == Len(AtomSeq)

ZeroExp == [i \in 1..NAtoms |-> 0]

Abs(x) == IF x < 0 THEN -x ELSE x

Min(x, y) == IF x < y THEN x ELSE y

\* the greatest common divisor, positive for b > 0
RECURSIVE Gcd(_, _)
Gcd(a, b) == IF b = 0 THEN a ELSE Gcd(b, a % b)

RECURSIVE IPow(_, _)
IPow(b, k) == IF k = 0 THEN 1 ELSE b * IPow(b, k - 1)

\* how many times p divides x (x /= 0)
RECURSIVE Mult(_, _)
Mult(x, p) == IF x % p = 0 THEN 1 + Mult(x \div p, p) ELSE 0

\* x without its factors in AtomSeq
RECURSIVE StripAll(_, _)
StripAll(x, i) ==
    IF i > NAtoms THEN x
    ELSE StripAll(x \div IPow(AtomSeq[i], Mult(x, AtomSeq[i])), i + 1)

NZero == [n |-> 0, d |-> 1, e |-> ZeroExp]

NOne == [n |-> 1, d |-> 1, e |-> ZeroExp]

\* n / d in lowest terms, for d > 0
Lowest(n, d, e) == [n |-> n \div Gcd(n, d), d |-> d \div Gcd(n, d), e |-> e]

\* canonical form of (n / d) * PRODUCT AtomSeq[i]^e[i], for d > 0
Norm(n, d, e) ==
    IF n = 0 THEN NZero
    ELSE Lowest(StripAll(n, 1), StripAll(d, 1),
                [i \in 1..NAtoms |->
                    e[i] + Mult(n, AtomSeq[i]) - Mult(d, AtomSeq[i])])

\* the ratio n / d, for d > 0
NFrac(n, d) == Norm(n, d, ZeroExp)

NInt(n) == NFrac(n, 1)

\* the product of two canonical forms has no factor of AtomSeq left in n, d
NMul(a, b) ==
    IF a.n = 0 \/ b.n = 0 THEN NZero
    ELSE Lowest(a.n * b.n, a.d * b.d, [i \in 1..NAtoms |-> a.e[i] + b.e[i]])

\* 1 / a, for a /= 0
NInv(a) ==
    [n |-> IF a.n < 0 THEN -a.d ELSE a.d, d |-> Abs(a.n),
     e |-> [i \in 1..NAtoms |-> -a.e[i]]]

NDiv(a, b) == NMul(a, NInv(b))

NNeg(a) == [a EXCEPT !.n = -a.n]

\* a^k for k >= 0
NPowNat(a, k) ==
    [n |-> IPow(a.n, k), d |-> IPow(a.d, k), e |-> [i \in 1..NAtoms |-> a.e[i] * k]]

\* a^k for an integer k (a /= 0 when k < 0)
NPow(a, k) == IF k >= 0 THEN NPowNat(a, k) ELSE NPowNat(NInv(a), -k)

RECURSIVE ProdPow(_, _, _)
ProdPow(e, lo, i) ==
    IF i > NAtoms THEN 1
    ELSE IPow(AtomSeq[i], e[i] - lo[i]) * ProdPow(e, lo, i + 1)

\* a + b over the common factored part lo
NAddOver(a, b, lo) ==
    Norm(a.n * ProdPow(a.e, lo, 1) * b.d + b.n * ProdPow(b.e, lo, 1) * a.d,
         a.d * b.d, lo)

NAdd(a, b) ==
    IF a.n = 0 THEN b
    ELSE IF b.n = 0 THEN a
    ELSE NAddOver(a, b, [i \in 1..NAtoms |-> Min(a.e[i], b.e[i])])

NSub(a, b) == NAdd(a, NNeg(b))

\* Number.isInteger
NIsInteger(a) == a.d = 1 /\ \A i \in 1..NAtoms : a.e[i] >= 0

\* the integer a stands for, when NIsInteger(a)
NToInt(a) == a.n * ProdPow(a.e, ZeroExp, 1)

\* the exponent of the prime p in a list of prime powers <<p, k>>
RECURSIVE FactorExp(_, _)
FactorExp(fs, p) ==
    IF fs = <<>> THEN 0
    ELSE (IF fs[1][1] = p THEN fs[1][2] ELSE 0) + FactorExp(Tail(fs), p)

\* the product of prime powers <<p, k>>, every p in AtomSeq
NFactors(fs) ==
    [n |-> 1, d |-> 1, e |-> [i \in 1..NAtoms |-> FactorExp(fs, AtomSeq[i])]]

\* mantissa * 10^exp, the value of a decimal literal
NDec(mant, exp) == NMul(NInt(mant), NFactors(<<<<2, exp>>, <<5, exp>>>>))

-----------------------------------------------------------------------------
(* Strings.                                                                *)

\* the characters U+0020 .. U+007E in code order (QUOTE is U+0022, BACKSLASH
\* is U+005C, BACKTICK is U+0060)
AsciiChars ==
    <<" ", "!", "QUOTE", "#", "$", "%", "&", "'", "(", ")", "*", "+", ",", "-", ".", "/",
      "0", "1", "2", "3", "4", "5", "6", "7", "8", "9", ":", ";", "<", "=", ">", "?",
      "@", "A", "B", "C", "D", "E", "F", "G", "H", "I", "J", "K", "L", "M", "N", "O",
      "P", "Q", "R", "S", "T", "U", "V", "W", "X", "Y", "Z", "[", "BACKSLASH", "]", "^", "_",
      "BACKTICK", "a", "b", "c", "d", "e", "f", "g", "h", "i", "j", "k", "l", "m", "n", "o",
      "p", "q", "r", "s", "t", "u", "v", "w", "x", "y", "z", "{", "|", "}", "~">>

\* the UTF-16 code unit of a character
CharCode(c) ==
    IF c = "MU" THEN 181
    ELSE IF c = "DOT" THEN 8901
    ELSE 31 + (CHOOSE i \in 1..Len(AsciiChars) : AsciiChars[i] = c)

\* a < b for strings, as the JavaScript operator < compares them
RECURSIVE StrLess(_, _)
StrLess(a, b) ==
    IF b = <<>> THEN FALSE
    ELSE IF a = <<>> THEN TRUE
    ELSE IF a[1] = b[1] THEN StrLess(Tail(a), Tail(b))
    ELSE CharCode(a[1]) < CharCode(b[1])

\* String.prototype.substring(from) and substring(from, to), 0-based
Substring(s, from, to) ==
    IF Min(to, Len(s)) <= Min(from, Len(s)) THEN <<>>
    ELSE SubSeq(s, Min(from, Len(s)) + 1, Min(to, Len(s)))

SubstringFrom(s, from) == Substring(s, from, Len(s))

\* String.prototype.indexOf(c): 0-based, -1 when absent
IndexOf(s, c) ==
    IF \E i \in 1..Len(s) : s[i] = c
    THEN (CHOOSE i \in 1..Len(s) : s[i] = c /\ \A j \in 1..(i - 1) : s[j] # c) - 1
    ELSE -1

RECURSIVE Concat(_)
Concat(ss) == IF ss = <<>> THEN <<>> ELSE ss[1] \o Concat(Tail(ss))

\* Array.prototype.join
RECURSIVE Join(_, _)
Join(ss, sep) ==
    IF ss = <<>> THEN <<>>
    ELSE IF Len(ss) = 1 THEN ss[1]
    ELSE ss[1] \o sep \o Join(Tail(ss), sep)

-----------------------------------------------------------------------------
(* Results of operations that may throw.                                   *)

Ok(v) == [ok |-> TRUE, val |-> v, err |-> "none"]

Err(kind) == [ok |-> FALSE, val |-> <<>>, err |-> kind]

-----------------------------------------------------------------------------
(* Dimensions (dimensions.ts).                                             *)

numBasicDimensions == 8

\* an optional value that is absent (undefined)
Undefined == [has |-> FALSE, v |-> <<>>]

Some(x) == [has |-> TRUE, v |-> x]

\* x?.length, with -1 standing for undefined
OptLength(x) == IF x.has THEN Len(x.v) ELSE -1

\* the check of customDimensionNames.every((v, i, a) => i === 0 || v > a[i - 1])
isSorted(names) ==
    \A i \in 1..Len(names) : i = 1 \/ StrLess(names[i - 1], names[i])

\* new Dimensions(dimensions, customDimensionNames, offset): the object, or
\* the QuantityError the constructor throws
Dimensions(dimensions, customDimensionNames, offset) ==
    IF Len(dimensions) < numBasicDimensions
    THEN Err("InvalidDimensions")   \* "not enough dimensions specified for Quantity."
    ELSE IF Len(dimensions) #
            numBasicDimensions +
            (IF customDimensionNames.has THEN Len(customDimensionNames.v) ELSE 0)
    THEN Err("InvalidDimensions")   \* "... they must be named via customDimensionNames"
    ELSE IF customDimensionNames.has /\ ~isSorted(customDimensionNames.v)
    THEN Err("InvalidDimensions")   \* "customDimensionNames is not sorted ..."
    ELSE Ok([dimensions |-> dimensions,
             customDimensionNames |-> customDimensionNames,
             offset |-> offset])

\* new Dimensions([...]) and new Dimensions([...], [...]) with a vector and
\* names the constructor accepts: the object it builds
NewDimensions(dimensions) ==
    [dimensions |-> dimensions, customDimensionNames |-> Undefined, offset |-> 0]

NewDimensionsCustom(dimensions, names) ==
    [dimensions |-> dimensions, customDimensionNames |-> Some(names), offset |-> 0]

Dimensionless == NewDimensions(<<0, 0, 0, 0, 0, 0, 0, 0>>)

isDimensionless(this) ==
    \/ this = Dimensionless
    \/ /\ \A i \in 1..Len(this.dimensions) : this.dimensions[i] = 0
       /\ this.offset = 0

\* a variant of equalTo that compares the lengths and the custom names but
\* not the exponents
equalToUnlessExponents(this, other) ==
    /\ other.offset = this.offset
    /\ Len(this.dimensions) = Len(other.dimensions)
    /\ this.customDimensionNames = other.customDimensionNames

equalTo(this, other) ==
    /\ other.offset = this.offset
    /\ Len(this.dimensions) = Len(other.dimensions)
    /\ \A i \in 1..Len(this.dimensions) : this.dimensions[i] = other.dimensions[i]
    /\ OptLength(this.customDimensionNames) = OptLength(other.customDimensionNames)
    /\ \/ ~this.customDimensionNames.has
       \/ \A i \in 1..Len(this.customDimensionNames.v) :
              /\ other.customDimensionNames.has
              /\ i <= Len(other.customDimensionNames.v)
              /\ this.customDimensionNames.v[i] = other.customDimensionNames.v[i]

-----------------------------------------------------------------------------
(* The unit table and the prefix table (units.ts).                         *)

NoOffset == [has |-> FALSE, v |-> <<0, 1>>]

MASS_DIMENSION == NewDimensions(<<1, 0, 0, 0, 0, 0, 0, 0>>)
DIST_DIMENSION == NewDimensions(<<0, 1, 0, 0, 0, 0, 0, 0>>)
TIME_DIMENSION == NewDimensions(<<0, 0, 1, 0, 0, 0, 0, 0>>)
TEMP_DIMENSION == NewDimensions(<<0, 0, 0, 1, 0, 0, 0, 0>>)
NRGY_DIMENSIONS == NewDimensions(<<1, 2, -2, 0, 0, 0, 0, 0>>)
POWR_DIMENSIONS == NewDimensions(<<1, 2, -3, 0, 0, 0, 0, 0>>)
VOLM_DIMENSIONS == NewDimensions(<<0, 3, 0, 0, 0, 0, 0, 0>>)
AREA_DIMENSIONS == NewDimensions(<<0, 2, 0, 0, 0, 0, 0, 0>>)
INFO_DIMENSIONS == NewDimensions(<<0, 0, 0, 0, 0, 0, 0, 1>>)
PRSR_DIMENSIONS == NewDimensions(<<1, -1, -2, 0, 0, 0, 0, 0>>)

\* a variant of the prefixes with Gi as 1e9
prefixesDecimalGi ==
    (<<"q">> :> <<<<2, -30>>, <<5, -30>>>>)
    @@ (<<"r">> :> <<<<2, -27>>, <<5, -27>>>>)
    @@ (<<"y">> :> <<<<2, -24>>, <<5, -24>>>>)
    @@ (<<"z">> :> <<<<2, -21>>, <<5, -21>>>>)
    @@ (<<"a">> :> <<<<2, -18>>, <<5, -18>>>>)
    @@ (<<"f">> :> <<<<2, -15>>, <<5, -15>>>>)
    @@ (<<"p">> :> <<<<2, -12>>, <<5, -12>>>>)
    @@ (<<"n">> :> <<<<2, -9>>, <<5, -9>>>>)
    @@ (<<"u">> :> <<<<2, -6>>, <<5, -6>>>>)
    @@ (<<"MU">> :> <<<<2, -6>>, <<5, -6>>>>)
    @@ (<<"m">> :> <<<<2, -3>>, <<5, -3>>>>)
    @@ (<<"c">> :> <<<<2, -2>>, <<5, -2>>>>)
    @@ (<<"d">> :> <<<<2, -1>>, <<5, -1>>>>)
    @@ (<<"h">> :> <<<<2, 2>>, <<5, 2>>>>)
    @@ (<<"k">> :> <<<<2, 3>>, <<5, 3>>>>)
    @@ (<<"M">> :> <<<<2, 6>>, <<5, 6>>>>)
    @@ (<<"G">> :> <<<<2, 9>>, <<5, 9>>>>)
    @@ (<<"T">> :> <<<<2, 12>>, <<5, 12>>>>)
    @@ (<<"P">> :> <<<<2, 15>>, <<5, 15>>>>)
    @@ (<<"E">> :> <<<<2, 18>>, <<5, 18>>>>)
    @@ (<<"Z">> :> <<<<2, 21>>, <<5, 21>>>>)
    @@ (<<"Y">> :> <<<<2, 24>>, <<5, 24>>>>)
    @@ (<<"R">> :> <<<<2, 27>>, <<5, 27>>>>)
    @@ (<<"Q">> :> <<<<2, 30>>, <<5, 30>>>>)
    @@ (<<"K", "i">> :> <<<<2, 10>>>>)
    @@ (<<"M", "i">> :> <<<<2, 20>>>>)
    @@ (<<"G", "i">> :> <<<<2, 9>>, <<5, 9>>>>)
    @@ (<<"T", "i">> :> <<<<2, 40>>>>)
    @@ (<<"P", "i">> :> <<<<2, 50>>>>)
    @@ (<<"E", "i">> :> <<<<2, 60>>>>)
    @@ (<<"Z", "i">> :> <<<<2, 70>>>>)
    @@ (<<"Y", "i">> :> <<<<2, 80>>>>)

\* prefixes (units.ts:5-42), each key with the prime factorisation of the
\* factor its literal denotes
prefixes ==
    (<<"q">> :> <<<<2, -30>>, <<5, -30>>>>)  \* q: 1e-30
    @@ (<<"r">> :> <<<<2, -27>>, <<5, -27>>>>)  \* r: 1e-27
    @@ (<<"y">> :> <<<<2, -24>>, <<5, -24>>>>)  \* y: 1e-24
    @@ (<<"z">> :> <<<<2, -21>>, <<5, -21>>>>)  \* z: 1e-21
    @@ (<<"a">> :> <<<<2, -18>>, <<5, -18>>>>)  \* a: 1e-18
    @@ (<<"f">> :> <<<<2, -15>>, <<5, -15>>>>)  \* f: 1e-15
    @@ (<<"p">> :> <<<<2, -12>>, <<5, -12>>>>)  \* p: 1e-12
    @@ (<<"n">> :> <<<<2, -9>>, <<5, -9>>>>)  \* n: 1e-9
    @@ (<<"u">> :> <<<<2, -6>>, <<5, -6>>>>)  \* u: 1e-6
    @@ (<<"MU">> :> <<<<2, -6>>, <<5, -6>>>>)  \* µ: 1e-6
    @@ (<<"m">> :> <<<<2, -3>>, <<5, -3>>>>)  \* m: 1e-3
    @@ (<<"c">> :> <<<<2, -2>>, <<5, -2>>>>)  \* c: 1e-2
    @@ (<<"d">> :> <<<<2, -1>>, <<5, -1>>>>)  \* d: 1e-1
    @@ (<<"h">> :> <<<<2, 2>>, <<5, 2>>>>)  \* h: 1e+2
    @@ (<<"k">> :> <<<<2, 3>>, <<5, 3>>>>)  \* k: 1e+3
    @@ (<<"M">> :> <<<<2, 6>>, <<5, 6>>>>)  \* M: 1e+6
    @@ (<<"G">> :> <<<<2, 9>>, <<5, 9>>>>)  \* G: 1e+9
    @@ (<<"T">> :> <<<<2, 12>>, <<5, 12>>>>)  \* T: 1e+12
    @@ (<<"P">> :> <<<<2, 15>>, <<5, 15>>>>)  \* P: 1e+15
    @@ (<<"E">> :> <<<<2, 18>>, <<5, 18>>>>)  \* E: 1e+18
    @@ (<<"Z">> :> <<<<2, 21>>, <<5, 21>>>>)  \* Z: 1e+21
    @@ (<<"Y">> :> <<<<2, 24>>, <<5, 24>>>>)  \* Y: 1e+24
    @@ (<<"R">> :> <<<<2, 27>>, <<5, 27>>>>)  \* R: 1e+27
    @@ (<<"Q">> :> <<<<2, 30>>, <<5, 30>>>>)  \* Q: 1e+30
    @@ (<<"K", "i">> :> <<<<2, 10>>>>)  \* Ki: 1.024e+3
    @@ (<<"M", "i">> :> <<<<2, 20>>>>)  \* Mi: 1.048576e+6
    @@ (<<"G", "i">> :> <<<<2, 30>>>>)  \* Gi: 1.073741824e+9
    @@ (<<"T", "i">> :> <<<<2, 40>>>>)  \* Ti: 1.099511627776e+12
    @@ (<<"P", "i">> :> <<<<2, 50>>>>)  \* Pi: 1.125899906842624e+15
    @@ (<<"E", "i">> :> <<<<2, 60>>>>)  \* Ei: 1.152921504606847e+18
    @@ (<<"Z", "i">> :> <<<<2, 70>>>>)  \* Zi: 1.1805916207174113e+21
    @@ (<<"Y", "i">> :> <<<<2, 80>>>>)  \* Yi: 1.2089258196146292e+24

\* a Unit: scale s, dimensions d, and the optional fields of the interface
\* (units.ts:49-60); an absent flag reads as FALSE
Unit(s, d, offset, prefixable, binaryPrefixable) ==
    [s |-> s, d |-> d, offset |-> offset,
     prefixable |-> prefixable, binaryPrefixable |-> binaryPrefixable]

\* builtInUnits (units.ts:80-421), section by section.  Each scale is the
\* value its literal denotes, as a list of prime powers <<p, k>>; an offset is
\* the ratio <<numerator, denominator>> its literal denotes.

\* a variant of the dimensionless units with % as 1e-3
dimensionlessUnitsPerMille ==
    (<<"%">> :>
        Unit(<<<<2, -3>>, <<5, -3>>>>, Dimensionless,
             NoOffset, FALSE, FALSE))
    @@ (<<"p", "p", "m">> :>
           Unit(<<<<2, -6>>, <<5, -6>>>>, Dimensionless,
                NoOffset, FALSE, FALSE))

\* Dimensionless (units.ts:82-88)
dimensionlessUnits ==
    (<<"%">> :>   \* %: s: 1e-2
        Unit(<<<<2, -2>>, <<5, -2>>>>, Dimensionless,
             NoOffset, FALSE, FALSE))
    @@ (<<"p", "p", "m">> :>   \* ppm: s: 1e-6
           Unit(<<<<2, -6>>, <<5, -6>>>>, Dimensionless,
                NoOffset, FALSE, FALSE))

\* Mass (units.ts:92-102)
massUnits ==
    (<<"g">> :>   \* g: s: 1e-3
        Unit(<<<<2, -3>>, <<5, -3>>>>, MASS_DIMENSION,
             NoOffset, TRUE, FALSE))
    @@ (<<"l", "b">> :>   \* lb: s: 4.5359237e-1
           Unit(<<<<2, -8>>, <<5, -8>>, <<7, 1>>, <<11, 1>>, <<97, 1>>, <<6073, 1>>>>, MASS_DIMENSION,
                NoOffset, FALSE, FALSE))

\* a variant of the distance units with a prefixable inch
distanceUnitsPrefixableInch ==
    (<<"m">> :>
        Unit(<<>>, DIST_DIMENSION,
             NoOffset, TRUE, FALSE))
    @@ (<<"i", "n">> :>
           Unit(<<<<2, -3>>, <<5, -4>>, <<127, 1>>>>, DIST_DIMENSION,
                NoOffset, TRUE, FALSE))
    @@ (<<"f", "t">> :>
           Unit(<<<<2, -1>>, <<3, 1>>, <<5, -4>>, <<127, 1>>>>, DIST_DIMENSION,
                NoOffset, FALSE, FALSE))
    @@ (<<"m", "i">> :>
           Unit(<<<<2, 4>>, <<3, 2>>, <<5, -3>>, <<11, 1>>, <<127, 1>>>>, DIST_DIMENSION,
                NoOffset, FALSE, FALSE))

\* Distance (units.ts:119-132)
distanceUnits ==
    (<<"m">> :>   \* m: s: 1e+0
        Unit(<<>>, DIST_DIMENSION,
             NoOffset, TRUE, FALSE))
    @@ (<<"i", "n">> :>   \* in: s: 2.54e-2
           Unit(<<<<2, -3>>, <<5, -4>>, <<127, 1>>>>, DIST_DIMENSION,
                NoOffset, FALSE, FALSE))
    @@ (<<"f", "t">> :>   \* ft: s: 3.048e-1
           Unit(<<<<2, -1>>, <<3, 1>>, <<5, -4>>, <<127, 1>>>>, DIST_DIMENSION,
                NoOffset, FALSE, FALSE))
    @@ (<<"m", "i">> :>   \* mi: s: 1.609344e+3
           Unit(<<<<2, 4>>, <<3, 2>>, <<5, -3>>, <<11, 1>>, <<127, 1>>>>, DIST_DIMENSION,
                NoOffset, FALSE, FALSE))

\* Time (units.ts:154-180)
timeUnits ==
    (<<"s">> :>   \* s: s: 1e+0
        Unit(<<>>, TIME_DIMENSION,
             NoOffset, TRUE, FALSE))
    @@ (<<"m", "i", "n">> :>   \* min: s: 6e+1
           Unit(<<<<2, 2>>, <<3, 1>>, <<5, 1>>>>, TIME_DIMENSION,
                NoOffset, FALSE, FALSE))
    @@ (<<"h">> :>   \* h: s: 3.6e+3
           Unit(<<<<2, 4>>, <<3, 2>>, <<5, 2>>>>, TIME_DIMENSION,
                NoOffset, FALSE, FALSE))
    @@ (<<"d", "a", "y">> :>   \* day: s: 8.64e+4
           Unit(<<<<2, 7>>, <<3, 3>>, <<5, 2>>>>, TIME_DIMENSION,
                NoOffset, FALSE, FALSE))
    @@ (<<"w", "e", "e", "k">> :>   \* week: s: 6.048e+5
           Unit(<<<<2, 7>>, <<3, 3>>, <<5, 2>>, <<7, 1>>>>, TIME_DIMENSION,
                NoOffset, FALSE, FALSE))
    @@ (<<"y", "r">> :>   \* yr: s: 3.1536e+7
           Unit(<<<<2, 7>>, <<3, 3>>, <<5, 3>>, <<73, 1>>>>, TIME_DIMENSION,
                NoOffset, FALSE, FALSE))
    @@ (<<"k", "a">> :>   \* ka: s: 3.1536e+10
           Unit(<<<<2, 10>>, <<3, 3>>, <<5, 6>>, <<73, 1>>>>, TIME_DIMENSION,
                NoOffset, FALSE, FALSE))
    @@ (<<"M", "a">> :>   \* Ma: s: 3.1536e+13
           Unit(<<<<2, 13>>, <<3, 3>>, <<5, 9>>, <<73, 1>>>>, TIME_DIMENSION,
                NoOffset, FALSE, FALSE))
    @@ (<<"G", "a">> :>   \* Ga: s: 3.1536e+16
           Unit(<<<<2, 16>>, <<3, 3>>, <<5, 12>>, <<73, 1>>>>, TIME_DIMENSION,
                NoOffset, FALSE, FALSE))

\* a variant of the temperature units with the offset of degF in degrees
\* Fahrenheit (459.67)
temperatureUnitsOwnScale ==
    (<<"K">> :>
        Unit(<<>>, TEMP_DIMENSION,
             NoOffset, TRUE, FALSE))
    @@ (<<"d", "e", "l", "t", "a", "C">> :>
           Unit(<<>>, TEMP_DIMENSION,
                NoOffset, FALSE, FALSE))
    @@ (<<"d", "e", "g", "F">> :>
           Unit(<<<<3, -2>>, <<5, 1>>>>, TEMP_DIMENSION,
                [has |-> TRUE, v |-> <<45967, 100>>], FALSE, FALSE))
    @@ (<<"d", "e", "g", "C">> :>
           Unit(<<>>, TEMP_DIMENSION,
                [has |-> TRUE, v |-> <<27315, 100>>], FALSE, FALSE))

\* a variant of the temperature units with degC as a plain unit, without
\* offset
temperatureUnitsPlain ==
    (<<"K">> :>
        Unit(<<>>, TEMP_DIMENSION,
             NoOffset, TRUE, FALSE))
    @@ (<<"d", "e", "l", "t", "a", "C">> :>
           Unit(<<>>, TEMP_DIMENSION,
                NoOffset, FALSE, FALSE))
    @@ (<<"d", "e", "g", "F">> :>
           Unit(<<<<3, -2>>, <<5, 1>>>>, TEMP_DIMENSION,
                [has |-> TRUE, v |-> <<45967, 180>>], FALSE, FALSE))
    @@ (<<"d", "e", "g", "C">> :>
           Unit(<<>>, TEMP_DIMENSION,
                NoOffset, FALSE, FALSE))

\* Temperature (units.ts:182-191)
temperatureUnits ==
    (<<"K">> :>   \* K: s: 1e+0
        Unit(<<>>, TEMP_DIMENSION,
             NoOffset, TRUE, FALSE))
    @@ (<<"d", "e", "l", "t", "a", "C">> :>   \* deltaC: s: 1e+0
           Unit(<<>>, TEMP_DIMENSION,
                NoOffset, FALSE, FALSE))
    @@ (<<"d", "e", "g", "F">> :>   \* degF: s: 5.555555555555556e-1, offset: 2.553722222222222e+2
           Unit(<<<<3, -2>>, <<5, 1>>>>, TEMP_DIMENSION,
                [has |-> TRUE, v |-> <<45967, 180>>], FALSE, FALSE))
    @@ (<<"d", "e", "g", "C">> :>   \* degC: s: 1e+0, offset: 2.7315e+2
           Unit(<<>>, TEMP_DIMENSION,
                [has |-> TRUE, v |-> <<27315, 100>>], FALSE, FALSE))

\* Speed (units.ts:198-216)
speedUnits ==
    (<<"c">> :>   \* c: s: 2.99792458e+8
        Unit(<<<<2, 1>>, <<7, 1>>, <<73, 1>>, <<293339, 1>>>>, NewDimensions(<<0, 1, -1, 0, 0, 0, 0, 0>>),
             NoOffset, FALSE, FALSE))
    @@ (<<"P", "a">> :>   \* Pa: s: 1e+0
           Unit(<<>>, PRSR_DIMENSIONS,
                NoOffset, TRUE, FALSE))
    @@ (<<"p", "s", "i">> :>   \* psi: s: 6.89475729316836e+3
           Unit(<<<<2, -9>>, <<3, 1>>, <<5, -11>>, <<7, 2>>, <<11, 1>>, <<16103, 1>>, <<6619759, 1>>>>, PRSR_DIMENSIONS,
                NoOffset, FALSE, FALSE))
    @@ (<<"a", "t", "m">> :>   \* atm: s: 1.01325e+5
           Unit(<<<<3, 1>>, <<5, 2>>, <<7, 1>>, <<193, 1>>>>, PRSR_DIMENSIONS,
                NoOffset, FALSE, FALSE))

\* Force (units.ts:230-233)
forceUnits ==
    (<<"N">> :>   \* N: s: 1e+0
        Unit(<<>>, NewDimensions(<<1, 1, -2, 0, 0, 0, 0, 0>>),
             NoOffset, TRUE, FALSE))

\* Energy (units.ts:244-258)
energyUnits ==
    (<<"J">> :>   \* J: s: 1e+0
        Unit(<<>>, NRGY_DIMENSIONS,
             NoOffset, TRUE, FALSE))
    @@ (<<"e", "V">> :>   \* eV: s: 1.602176634e-19
           Unit(<<<<2, -27>>, <<3, 2>>, <<5, -28>>, <<19, 1>>, <<389, 1>>, <<12043, 1>>>>, NRGY_DIMENSIONS,
                NoOffset, TRUE, FALSE))
    @@ (<<"B", "T", "U">> :>   \* BTU: s: 1.05505585e+3
           Unit(<<<<2, -5>>, <<5, -4>>, <<1399, 1>>, <<15083, 1>>>>, NRGY_DIMENSIONS,
                NoOffset, FALSE, FALSE))
    @@ (<<"W", "h">> :>   \* Wh: s: 3.6e+3
           Unit(<<<<2, 4>>, <<3, 2>>, <<5, 2>>>>, NRGY_DIMENSIONS,
                NoOffset, TRUE, FALSE))

\* Power (units.ts:272-279)
powerUnits ==
    (<<"W">> :>   \* W: s: 1e+0
        Unit(<<>>, POWR_DIMENSIONS,
             NoOffset, TRUE, FALSE))
    @@ (<<"H", "P">> :>   \* HP: s: 7.4569987158227e+2
           Unit(<<<<2, -11>>, <<5, -11>>, <<11, 1>>, <<31, 1>>, <<1097, 1>>, <<199343951, 1>>>>, POWR_DIMENSIONS,
                NoOffset, FALSE, FALSE))

\* Volume (units.ts:288-325)
volumeUnits ==
    (<<"L">> :>   \* L: s: 1e-3
        Unit(<<<<2, -3>>, <<5, -3>>>>, VOLM_DIMENSIONS,
             NoOffset, TRUE, FALSE))
    @@ (<<"h", "a">> :>   \* ha: s: 1e+4
           Unit(<<<<2, 4>>, <<5, 4>>>>, AREA_DIMENSIONS,
                NoOffset, FALSE, FALSE))

\* Information (units.ts:328-334)
informationUnits ==
    (<<"b">> :>   \* b: s: 1
        Unit(<<>>, INFO_DIMENSIONS,
             NoOffset, TRUE, TRUE))
    @@ (<<"B">> :>   \* B: s: 8
           Unit(<<<<2, 3>>>>, INFO_DIMENSIONS,
                NoOffset, TRUE, TRUE))

\* Electromagnetism (units.ts:340-404)
electromagnetismUnits ==
    (<<"A">> :>   \* A: s: 1e+0
        Unit(<<>>, NewDimensions(<<0, 0, 0, 0, 1, 0, 0, 0>>),
             NoOffset, TRUE, FALSE))
    @@ (<<"C">> :>   \* C: s: 1e+0
           Unit(<<>>, NewDimensions(<<0, 0, 1, 0, 1, 0, 0, 0>>),
                NoOffset, TRUE, FALSE))
    @@ (<<"A", "h">> :>   \* Ah: s: 3.6e+3
           Unit(<<<<2, 4>>, <<3, 2>>, <<5, 2>>>>, NewDimensions(<<0, 0, 1, 0, 1, 0, 0, 0>>),
                NoOffset, TRUE, FALSE))
    @@ (<<"V">> :>   \* V: s: 1
           Unit(<<>>, NewDimensions(<<1, 2, -3, 0, -1, 0, 0, 0>>),
                NoOffset, TRUE, FALSE))
    @@ (<<"o", "h", "m">> :>   \* ohm: s: 1
           Unit(<<>>, NewDimensions(<<1, 2, -3, 0, -2, 0, 0, 0>>),
                NoOffset, FALSE, FALSE))
    @@ (<<"F">> :>   \* F: s: 1e+0
           Unit(<<>>, NewDimensions(<<-1, -2, 4, 0, 2, 0, 0, 0>>),
                NoOffset, TRUE, FALSE))
    @@ (<<"H">> :>   \* H: s: 1e+0
           Unit(<<>>, NewDimensions(<<1, 2, -2, 0, -2, 0, 0, 0>>),
                NoOffset, TRUE, FALSE))
    @@ (<<"S">> :>   \* S: s: 1e+0
           Unit(<<>>, NewDimensions(<<-1, -2, 3, 0, 2, 0, 0, 0>>),
                NoOffset, TRUE, FALSE))
    @@ (<<"W", "b">> :>   \* Wb: s: 1e+0
           Unit(<<>>, NewDimensions(<<1, 2, -2, 0, -1, 0, 0, 0>>),
                NoOffset, TRUE, FALSE))
    @@ (<<"T">> :>   \* T: s: 1e+0
           Unit(<<>>, NewDimensions(<<1, 0, -2, 0, -1, 0, 0, 0>>),
                NoOffset, TRUE, FALSE))
    @@ (<<"m", "o", "l">> :>   \* mol: s: 1e+0
           Unit(<<>>, NewDimensions(<<0, 0, 0, 0, 0, 1, 0, 0>>),
                NoOffset, FALSE, FALSE))
    @@ (<<"M">> :>   \* M: s: 1e+3
           Unit(<<<<2, 3>>, <<5, 3>>>>, NewDimensions(<<0, -3, 0, 0, 0, 1, 0, 0>>),
                NoOffset, FALSE, FALSE))
    @@ (<<"H", "z">> :>   \* Hz: s: 1
           Unit(<<>>, NewDimensions(<<0, 0, -1, 0, 0, 0, 0, 0>>),
                NoOffset, TRUE, FALSE))

\* Misc (units.ts:413-419)
miscUnits ==
    (<<"p", "p", "h", "p", "d">> :>   \* pphpd: s: 1 / 3600
        Unit(<<<<2, -4>>, <<3, -2>>, <<5, -2>>>>, NewDimensionsCustom(<<0, 0, -1, 0, 0, 0, 0, 0, -1, 1>>, <<<<"d", "i", "r">>, <<"p", "a", "x">>>>),
             NoOffset, FALSE, FALSE))

builtInUnits ==
    dimensionlessUnits
    @@ massUnits
    @@ distanceUnits
    @@ timeUnits
    @@ temperatureUnits
    @@ speedUnits
    @@ forceUnits
    @@ energyUnits
    @@ powerUnits
    @@ volumeUnits
    @@ informationUnits
    @@ electromagnetismUnits
    @@ miscUnits

-----------------------------------------------------------------------------
(* JavaScript semantics the parser relies on.                              *)

\* the property names every object literal inherits from Object.prototype
ObjectPrototypeKeys ==
    {<<"c", "o", "n", "s", "t", "r", "u", "c", "t", "o", "r">>,
     <<"t", "o", "S", "t", "r", "i", "n", "g">>,
     <<"v", "a", "l", "u", "e", "O", "f">>,
     <<"h", "a", "s", "O", "w", "n", "P", "r", "o", "p", "e", "r", "t", "y">>,
     <<"i", "s", "P", "r", "o", "t", "o", "t", "y", "p", "e", "O", "f">>,
     <<"p", "r", "o", "p", "e", "r", "t", "y", "I", "s", "E", "n", "u", "m", "e", "r", "a", "b", "l", "e">>,
     <<"t", "o", "L", "o", "c", "a", "l", "e", "S", "t", "r", "i", "n", "g">>,
     <<"_", "_", "p", "r", "o", "t", "o", "_", "_">>,
     <<"_", "_", "d", "e", "f", "i", "n", "e", "G", "e", "t", "t", "e", "r", "_", "_">>,
     <<"_", "_", "d", "e", "f", "i", "n", "e", "S", "e", "t", "t", "e", "r", "_", "_">>,
     <<"_", "_", "l", "o", "o", "k", "u", "p", "G", "e", "t", "t", "e", "r", "_", "_">>,
     <<"_", "_", "l", "o", "o", "k", "u", "p", "S", "e", "t", "t", "e", "r", "_", "_">>}

\* key in obj, for an object literal obj with the own property names ownKeys:
\* the operator "in" also finds inherited properties
InObject(key, ownKeys) == key \in ownKeys \/ key \in ObjectPrototypeKeys

\* str[0]: the first character, or undefined
FirstChar(str) == IF str = <<>> THEN Undefined ELSE Some(<<str[1]>>)

\* the property name a value is converted to
PropertyKey(x) == IF x.has THEN x.v ELSE <<"u", "n", "d", "e", "f", "i", "n", "e", "d">>

DecDigits == <<"0", "1", "2", "3", "4", "5", "6", "7", "8", "9">>

\* the digits of a numeral of base 16 or less, in either case
HexDigits == DecDigits \o <<"a", "b", "c", "d", "e", "f", "A", "B", "C", "D", "E", "F">>

\* the value of a digit
DigitVal(c) ==
    (CHOOSE i \in 1..16 : HexDigits[i] = c \/ (i > 10 /\ HexDigits[i + 6] = c)) - 1

IsDigitIn(c, base) ==
    (\E i \in 1..Len(HexDigits) : HexDigits[i] = c) /\ DigitVal(c) < base

AllDigitsIn(s, base) == s # <<>> /\ \A i \in 1..Len(s) : IsDigitIn(s[i], base)

RECURSIVE DigitsValue(_, _, _)
DigitsValue(s, base, acc) ==
    IF s = <<>> THEN acc
    ELSE DigitsValue(Tail(s), base, acc * base + DigitVal(s[1]))

NaN == [kind |-> "NaN", v |-> NZero]

Infinity == [kind |-> "Infinity", v |-> NZero]

Finite(v) == [kind |-> "finite", v |-> v]

HasSign(s) == s # <<>> /\ s[1] \in {"+", "-"}

Unsigned(s) == IF HasSign(s) THEN Tail(s) ELSE s

\* the first position of c1 or c2 in s, 0 when absent
FirstOf(s, c1, c2) ==
    IF \E i \in 1..Len(s) : s[i] \in {c1, c2}
    THEN CHOOSE i \in 1..Len(s) :
             s[i] \in {c1, c2} /\ \A j \in 1..(i - 1) : s[j] \notin {c1, c2}
    ELSE 0

\* the value of a signed run of decimal digits
SignedDigits(s) ==
    IF s[1] = "-" THEN -DigitsValue(Unsigned(s), 10, 0)
    ELSE DigitsValue(Unsigned(s), 10, 0)

\* DecimalDigits(opt) . DecimalDigits(opt) with the exponent ex: at least one
\* of the two runs of digits is there
DecimalValue(ip, fp, ex) ==
    IF /\ ip = <<>> \/ AllDigitsIn(ip, 10)
       /\ fp = <<>> \/ AllDigitsIn(fp, 10)
       /\ ip # <<>> \/ fp # <<>>
    THEN Finite(NDec(DigitsValue(ip \o fp, 10, 0), ex - Len(fp)))
    ELSE NaN

\* the mantissa: digits with an optional "."
Mantissa(mant, ex) ==
    IF FirstOf(mant, ".", ".") = 0 THEN DecimalValue(mant, <<>>, ex)
    ELSE DecimalValue(SubSeq(mant, 1, FirstOf(mant, ".", ".") - 1),
                      SubSeq(mant, FirstOf(mant, ".", ".") + 1, Len(mant)), ex)

\* mantissa and ExponentPart: "e" or "E", an optional sign, digits
WithExponent(mant, expo) ==
    IF AllDigitsIn(Unsigned(expo), 10) THEN Mantissa(mant, SignedDigits(expo))
    ELSE NaN

\* StrUnsignedDecimalLiteral (ECMAScript StringToNumber)
UnsignedDecimal(body) ==
    IF FirstOf(body, "e", "E") = 0 THEN Mantissa(body, 0)
    ELSE WithExponent(SubSeq(body, 1, FirstOf(body, "e", "E") - 1),
                      SubSeq(body, FirstOf(body, "e", "E") + 1, Len(body)))

\* the radix of a literal 0x.., 0o.., 0b.., else 0
Radix(str) ==
    IF Len(str) < 2 \/ str[1] # "0" THEN 0
    ELSE IF str[2] \in {"x", "X"} THEN 16
    ELSE IF str[2] \in {"o", "O"} THEN 8
    ELSE IF str[2] \in {"b", "B"} THEN 2
    ELSE 0

\* NonDecimalIntegerLiteral: the digits after the two-character mark
RadixValue(digits, radix) ==
    IF AllDigitsIn(digits, radix) THEN Finite(NInt(DigitsValue(digits, radix, 0)))
    ELSE NaN

Signed(negative, x) ==
    IF x.kind = "finite" /\ negative THEN Finite(NNeg(x.v)) ELSE x

IsWhiteSpace(c) == c = " "

\* String.prototype.trim
RECURSIVE TrimStart(_)
TrimStart(s) ==
    IF s # <<>> /\ IsWhiteSpace(s[1]) THEN TrimStart(Tail(s)) ELSE s

RECURSIVE TrimEnd(_)
TrimEnd(s) ==
    IF s # <<>> /\ IsWhiteSpace(s[Len(s)])
    THEN TrimEnd(SubSeq(s, 1, Len(s) - 1))
    ELSE s

Trim(s) == TrimEnd(TrimStart(s))

\* StringToNumber of a string without surrounding white space
StringNumericLiteral(str) ==
    IF str = <<>> THEN Finite(NZero)
    ELSE IF Radix(str) # 0 THEN RadixValue(SubSeq(str, 3, Len(str)), Radix(str))
    ELSE IF Unsigned(str) = <<"I", "n", "f", "i", "n", "i", "t", "y">> THEN Infinity
    ELSE Signed(str[1] = "-", UnsignedDecimal(Unsigned(str)))

\* Number(str): white space around the numeral is ignored
Number(str) == StringNumericLiteral(Trim(str))

\* Number.isInteger(x)
IsInteger(x) == x.kind = "finite" /\ NIsInteger(x.v)

-----------------------------------------------------------------------------
(* The parser (units.ts).                                                  *)

\* additionalUnits ? { ...builtInUnits, ...additionalUnits } : builtInUnits
MergedUnits(additionalUnits) ==
    (IF additionalUnits.has THEN additionalUnits.v ELSE <<>>) @@ builtInUnits

\* units[name]?.prefixable and units[name]?.binaryPrefixable: an inherited
\* member of Object.prototype has neither property
IsPrefixable(units, name) == name \in DOMAIN units /\ units[name].prefixable

IsBinaryPrefixable(units, name) ==
    name \in DOMAIN units /\ units[name].binaryPrefixable

ParsedUnit(prefix, unit, power) == [prefix |-> prefix, unit |-> unit, power |-> power]

\* a variant of the exponent check without the test for 0
InvalidPowerUnlessZero(power) == ~IsInteger(power)

\* the exponent check of parseSingleUnit: power === 0 || !Number.isInteger(power)
InvalidPower(power) ==
    (power.kind = "finite" /\ power.v = NZero) \/ ~IsInteger(power)

\* a variant of the branches that tries the one-character prefix before the
\* exact name
ResolveUnitPrefixFirst(prefixedUnit, power, units) ==
    IF /\ InObject(PropertyKey(FirstChar(prefixedUnit)), DOMAIN prefixes)
       /\ IsPrefixable(units, SubstringFrom(prefixedUnit, 1))
    THEN Ok(ParsedUnit(FirstChar(prefixedUnit), SubstringFrom(prefixedUnit, 1), power))
    ELSE IF InObject(prefixedUnit, DOMAIN units)
    THEN Ok(ParsedUnit(Undefined, prefixedUnit, power))
    ELSE IF FirstChar(prefixedUnit) = Some(<<"_">>)
    THEN Ok(ParsedUnit(Undefined, prefixedUnit, power))
    ELSE IF /\ InObject(Substring(prefixedUnit, 0, 2), DOMAIN prefixes)
            /\ IsBinaryPrefixable(units, SubstringFrom(prefixedUnit, 2))
    THEN Ok(ParsedUnit(Some(Substring(prefixedUnit, 0, 2)),
                       SubstringFrom(prefixedUnit, 2), power))
    ELSE Err("UnknownUnit")

\* the branches of parseSingleUnit after the exponent check
ResolveUnit(prefixedUnit, power, units) ==
    IF InObject(prefixedUnit, DOMAIN units)
    THEN Ok(ParsedUnit(Undefined, prefixedUnit, power))
    ELSE IF FirstChar(prefixedUnit) = Some(<<"_">>)
    THEN Ok(ParsedUnit(Undefined, prefixedUnit, power))
    ELSE IF /\ InObject(PropertyKey(FirstChar(prefixedUnit)), DOMAIN prefixes)
            /\ IsPrefixable(units, SubstringFrom(prefixedUnit, 1))
    THEN Ok(ParsedUnit(FirstChar(prefixedUnit), SubstringFrom(prefixedUnit, 1), power))
    ELSE IF /\ InObject(Substring(prefixedUnit, 0, 2), DOMAIN prefixes)
            /\ IsBinaryPrefixable(units, SubstringFrom(prefixedUnit, 2))
    THEN Ok(ParsedUnit(Some(Substring(prefixedUnit, 0, 2)),
                       SubstringFrom(prefixedUnit, 2), power))
    ELSE Err("UnknownUnit")   \* `Unable to parse the unit "${unitStr}"`

\* caretPos === -1 ? unitStr : unitStr.substring(0, caretPos)
PrefixedUnit(unitStr) ==
    IF IndexOf(unitStr, "^") = -1 THEN unitStr
    ELSE Substring(unitStr, 0, IndexOf(unitStr, "^"))

\* caretPos === -1 ? 1 : Number(unitStr.substring(caretPos + 1))
Power(unitStr) ==
    IF IndexOf(unitStr, "^") = -1 THEN Finite(NOne)
    ELSE Number(SubstringFrom(unitStr, IndexOf(unitStr, "^") + 1))

\* the exponent check, then the branches
CheckedUnit(prefixedUnit, power, units) ==
    IF InvalidPower(power)
    THEN Err("InvalidExponent")   \* `Invalid exponent/power on unit "${unitStr}"`
    ELSE ResolveUnit(prefixedUnit, NToInt(power.v), units)

parseSingleUnit(unitStr, additionalUnits) ==
    CheckedUnit(PrefixedUnit(unitStr), Power(unitStr), MergedUnits(additionalUnits))

\* unitStr.split("/")
RECURSIVE SplitSlash(_, _)
SplitSlash(s, cur) ==
    IF s = <<>> THEN <<cur>>
    ELSE IF s[1] = "/" THEN <<cur>> \o SplitSlash(Tail(s), <<>>)
    ELSE SplitSlash(Tail(s), Append(cur, s[1]))

\* str.split(UNIT_SEPARATOR), UNIT_SEPARATOR = /\s+|DOT/g: a run of white
\* space is one separator, each DOT is one separator
RECURSIVE SplitSeparator(_, _)
SplitSeparator(s, cur) ==
    IF s = <<>> THEN <<cur>>
    ELSE IF IsWhiteSpace(s[1])
    THEN <<cur>> \o SplitSeparator(TrimStart(s), <<>>)
    ELSE IF s[1] = "DOT" THEN <<cur>> \o SplitSeparator(Tail(s), <<>>)
    ELSE SplitSeparator(Tail(s), Append(cur, s[1]))

\* a variant of the split that leaves the empty pieces out
PartsNotEmpty(section) ==
    SelectSeq(SplitSeparator(Trim(section), <<>>), LAMBDA part : part # <<>>)

\* section.trim().split(UNIT_SEPARATOR)
Parts(section) == SplitSeparator(Trim(section), <<>>)

\* one more parsed unit after the ones parsed so far, or the error thrown
Parsed(sofar, one) ==
    IF ~sofar.ok THEN sofar
    ELSE IF ~one.ok THEN one
    ELSE Ok(Append(sofar.val, one.val))

\* parts.map(part => parseSingleUnit(part, additionalUnits)) after the units
\* parsed so far: the parsed units, or the first error thrown
RECURSIVE MapParse(_, _, _)
MapParse(sofar, parts, additionalUnits) ==
    IF parts = <<>> \/ ~sofar.ok THEN sofar
    ELSE MapParse(Parsed(sofar, parseSingleUnit(parts[1], additionalUnits)),
                  Tail(parts), additionalUnits)

\* denominatorParts.forEach((x) => x.power *= -1) on the last n units
NegatedLast(parsed, n) ==
    IF ~parsed.ok THEN parsed
    ELSE Ok([i \in 1..Len(parsed.val) |->
                IF i > Len(parsed.val) - n
                THEN [parsed.val[i] EXCEPT !.power = @ * (-1)]
                ELSE parsed.val[i]])

\* the numerator parts are parsed first, then the denominator parts
ParseSections(sections, additionalUnits) ==
    IF Len(sections) > 2
    THEN Err("InvalidUnitString")   \* `Cannot parse a unit with 2 or more "/" symbols`
    ELSE IF Len(sections) = 1
    THEN MapParse(Ok(<<>>), Parts(sections[1]), additionalUnits)
    ELSE NegatedLast(MapParse(Ok(<<>>), Parts(sections[1]) \o Parts(sections[2]),
                              additionalUnits),
                     Len(Parts(sections[2])))

\* a variant of parseUnits that takes the empty string for the empty list
parseUnitsOrNone(unitStr, additionalUnits) ==
    IF unitStr = <<>> THEN Ok(<<>>)
    ELSE ParseSections(SplitSlash(unitStr, <<>>), additionalUnits)

parseUnits(unitStr, additionalUnits) ==
    ParseSections(SplitSlash(unitStr, <<>>), additionalUnits)

\* decimal digits of a natural number
RECURSIVE NatToString(_)
NatToString(n) ==
    IF n < 10 THEN <<DecDigits[n + 1]>>
    ELSE NatToString(n \div 10) \o <<DecDigits[(n % 10) + 1]>>

\* `${n}` for an integer n
IntToString(n) == IF n < 0 THEN <<"-">> \o NatToString(-n) ELSE NatToString(n)

PrefixText(u) == IF u.prefix.has THEN u.prefix.v ELSE <<>>

\* one entry of the numerator of toUnitString
NumeratorText(u) ==
    PrefixText(u) \o u.unit \o
    (IF u.power # 1 THEN <<"^">> \o IntToString(u.power) ELSE <<>>)

\* a variant of DenominatorText that writes every exponent, 1 as well
DenominatorTextAlways(u) ==
    PrefixText(u) \o u.unit \o <<"^">> \o IntToString(u.power * (-1))

\* one entry of the denominator of toUnitString
DenominatorText(u) ==
    PrefixText(u) \o u.unit \o
    (IF u.power # -1 THEN <<"^">> \o IntToString(u.power * (-1)) ELSE <<>>)

\* a variant of ExplicitText that writes the power without its sign
ExplicitTextUnsigned(u) ==
    PrefixText(u) \o u.unit \o <<"^">> \o NatToString(Abs(u.power))

\* one entry with its power always written
ExplicitText(u) == PrefixText(u) \o u.unit \o <<"^">> \o IntToString(u.power)

RECURSIVE SelectTexts(_, _)
SelectTexts(units, positive) ==
    IF units = <<>> THEN <<>>
    ELSE IF (units[1].power > 0) = positive
    THEN <<IF positive THEN NumeratorText(units[1]) ELSE DenominatorText(units[1])>>
         \o SelectTexts(Tail(units), positive)
    ELSE SelectTexts(Tail(units), positive)

\* a variant of UnitString that sets the slash between spaces
UnitStringSpaced(units, numerator, denominator) ==
    IF denominator # <<>>
    THEN IF numerator # <<>>
         THEN Join(numerator, <<"DOT">>) \o <<" ", "/", " ">> \o Join(denominator, <<"DOT">>)
         ELSE Join([i \in 1..Len(units) |-> ExplicitText(units[i])], <<"DOT">>)
    ELSE Join(numerator, <<"DOT">>)

\* the numerator and the denominator given, the string of toUnitString
UnitString(units, numerator, denominator) ==
    IF denominator # <<>>
    THEN IF numerator # <<>>
         THEN Join(numerator, <<"DOT">>) \o <<"/">> \o Join(denominator, <<"DOT">>)
         ELSE Join([i \in 1..Len(units) |-> ExplicitText(units[i])], <<"DOT">>)
    ELSE Join(numerator, <<"DOT">>)

toUnitString(units) ==
    UnitString(units, SelectTexts(units, TRUE), SelectTexts(units, FALSE))

\* builtInUnits[unit] ?? additionalUnits?.[unit], then the "_" shorthand.  A
\* name inherited from Object.prototype is found on builtInUnits and returned
\* as it is (it is no Unit: it has no s and no d).
InheritedMember == [s |-> "undefined", d |-> "undefined"]

\* a variant of UnitData that names the custom dimension by the whole token
UnitDataWholeName(unit, builtIn, additionalUnits) ==
    IF unit \in DOMAIN builtIn THEN Ok(builtIn[unit])
    ELSE IF unit \in ObjectPrototypeKeys THEN Ok(InheritedMember)
    ELSE IF additionalUnits.has /\ unit \in DOMAIN additionalUnits.v
    THEN Ok(additionalUnits.v[unit])
    ELSE IF unit # <<>> /\ unit[1] = "_"
    THEN Ok(Unit(<<>>,
                 NewDimensionsCustom(<<0, 0, 0, 0, 0, 0, 0, 0, 1>>, <<unit>>),
                 NoOffset, FALSE, FALSE))
    ELSE Err("UnknownUnit")

UnitData(unit, builtIn, additionalUnits) ==
    IF unit \in DOMAIN builtIn THEN Ok(builtIn[unit])
    ELSE IF unit \in ObjectPrototypeKeys THEN Ok(InheritedMember)
    ELSE IF additionalUnits.has /\ unit \in DOMAIN additionalUnits.v
    THEN Ok(additionalUnits.v[unit])
    ELSE IF unit # <<>> /\ unit[1] = "_"
    THEN Ok(Unit(<<>>,
                 NewDimensionsCustom(<<0, 0, 0, 0, 0, 0, 0, 0, 1>>,
                                     <<SubstringFrom(unit, 1)>>),
                 NoOffset, FALSE, FALSE))
    ELSE Err("UnknownUnit")   \* `Unknown/unsupported unit "${unit}"`

getUnitData(unit, additionalUnits) == UnitData(unit, builtInUnits, additionalUnits)

-----------------------------------------------------------------------------
(* The conversion engine (class Quantity).  Its source file is not part of *)
(* src/: the definitions below follow the specification (sections 3, 4.1,  *)
(* 4.5) and the tests of src/unnamed/part_000, which fix what the          *)
(* specification leaves open or states differently:                        *)
(*  - units without custom dimensions compose to Dimensions without a name *)
(*    list, as the table's own Dimensions are built (15 % converts to "",  *)
(*    part_000:62);                                                        *)
(*  - the offset of a unit is a shift of the SI-base magnitude, added      *)
(*    after scaling (100 degF is 37.78 degC, 70 degF is 294.26 K,          *)
(*    part_000:97 and 232);                                                *)
(*  - getSI commits the candidate that lowers the score most               *)
(*    (kg.m^2.s^-2.A^-3 is H/A, part_000:238).                             *)
(* A unit string whose unit is a name inherited from Object.prototype      *)
(* (see getUnitData) is outside the domain of these definitions.           *)

RECURSIVE SortNames(_)
SortNames(S) ==
    IF S = {} THEN <<>>
    ELSE LET least == CHOOSE x \in S : \A y \in S \ {x} : StrLess(x, y)
         IN  <<least>> \o SortNames(S \ {least})

NamesOf(d) ==
    IF d.customDimensionNames.has
    THEN {d.customDimensionNames.v[i] : i \in 1..Len(d.customDimensionNames.v)}
    ELSE {}

\* the exponent of the custom dimension name in d, 0 when d does not carry it
CustomExponent(d, name) ==
    IF name \in NamesOf(d)
    THEN d.dimensions[numBasicDimensions +
             (CHOOSE i \in 1..Len(d.customDimensionNames.v) :
                  d.customDimensionNames.v[i] = name)]
    ELSE 0

\* the sum of the exponents of the custom dimension name
CustomSum(lhs, rhs, power, name) ==
    CustomExponent(lhs, name) + power * CustomExponent(rhs, name)

\* the custom names of the combination, sorted: a name whose exponents sum
\* to 0 is dropped
CombinedNames(lhs, rhs, power) ==
    SortNames({name \in NamesOf(lhs) \cup NamesOf(rhs) :
                   CustomSum(lhs, rhs, power, name) # 0})

\* the combination with the custom names given
CombinedWith(lhs, rhs, power, names) ==
    Dimensions([i \in 1..numBasicDimensions |->
                    lhs.dimensions[i] + power * rhs.dimensions[i]]
                   \o [i \in 1..Len(names) |-> CustomSum(lhs, rhs, power, names[i])],
               IF ~lhs.customDimensionNames.has /\ ~rhs.customDimensionNames.has
               THEN Undefined ELSE Some(names),
               0)

\* combine(lhs, rhs * power): the basic exponents are added; the custom
\* dimensions are the sorted union of the names with summed exponents, and a
\* slot whose exponent becomes 0 is dropped with its name
combine(lhs, rhs, power) ==
    CombinedWith(lhs, rhs, power, CombinedNames(lhs, rhs, power))

\* the factor of the prefix of a parsed unit, 1 without prefix
PrefixFactor(u) == IF u.prefix.has THEN NFactors(prefixes[u.prefix.v]) ELSE NOne

\* the offset of a unit, 0 when it has none
UnitOffset(data) ==
    IF data.offset.has THEN NFrac(data.offset.v[1], data.offset.v[2]) ELSE NZero

\* scale *= f^power, dims := the combination
Accumulated(acc, u, data, dims) ==
    IF ~dims.ok THEN dims
    ELSE Ok([scale |-> NMul(acc.scale,
                            NPow(NMul(PrefixFactor(u), NFactors(data.s)), u.power)),
             dims  |-> dims.val])

\* one unit more in the reduction
ReduceUnit(acc, u, data) ==
    IF ~data.ok THEN data
    ELSE Accumulated(acc, u, data.val, combine(acc.dims, data.val.d, u.power))

\* scale and dims of a parsed unit list, unit by unit
RECURSIVE Reduce(_, _)
Reduce(units, acc) ==
    IF units = <<>> \/ ~acc.ok THEN acc
    ELSE Reduce(Tail(units),
                ReduceUnit(acc.val, units[1], getUnitData(units[1].unit, Undefined)))

\* an offset-bearing unit is valid only as the solitary unit, to the power 1
Solitary(units) == Len(units) = 1 /\ units[1].power = 1

\* the offsets of the units of the list, scaled by their prefixes
Offsets(units) ==
    [i \in 1..Len(units) |->
        NMul(UnitOffset(getUnitData(units[i].unit, Undefined).val),
             PrefixFactor(units[i]))]

\* the composite with the offsets of the units given
CompositeWith(units, offsets, reduced) ==
    IF (\E i \in 1..Len(units) : offsets[i] # NZero) /\ ~Solitary(units)
    THEN Err("InvalidOffsetUse")
    ELSE IF ~reduced.ok THEN reduced
    ELSE Ok([scale  |-> reduced.val.scale,
             dims   |-> reduced.val.dims,
             offset |-> IF Solitary(units) THEN offsets[1] ELSE NZero])

\* the composite (scale, dims, offset) of a parsed unit list
Composite(units) ==
    CompositeWith(units, Offsets(units),
                  Reduce(units, Ok([scale |-> NOne, dims |-> Dimensionless])))

\* the unit list of a unit string: the empty string is the dimensionless
\* unit, every other string goes through the parser
UnitsOf(unitStr) == IF unitStr = <<>> THEN Ok(<<>>) ELSE parseUnits(unitStr, Undefined)

\* magnitude in the given composite to the SI-base magnitude, and back
\* a variant of ToBase that adds the offset before scaling
ToBaseOffsetFirst(magnitude, c) == NMul(NAdd(magnitude, c.offset), c.scale)

ToBase(magnitude, c) == NAdd(NMul(magnitude, c.scale), c.offset)

FromBase(magnitude, c) == NDiv(NSub(magnitude, c.offset), c.scale)

\* the Quantity of a magnitude in a composite
QuantityIn(magnitude, units, c) ==
    IF ~c.ok THEN c
    ELSE Ok([magnitude  |-> ToBase(magnitude, c.val),
             dimensions |-> c.val.dims,
             units      |-> units])

QuantityOf(magnitude, units) ==
    IF ~units.ok THEN units ELSE QuantityIn(magnitude, units.val, Composite(units.val))

\* new Quantity(magnitude, { units }): the magnitude is kept in SI base form
NewQuantity(magnitude, unitStr) == QuantityOf(magnitude, UnitsOf(unitStr))

\* the dimensions of the Quantity and of the target composite must agree
ConvertedIn(q, units, c) ==
    IF ~c.ok THEN c
    ELSE IF ~equalTo(q.dimensions, c.val.dims) THEN Err("InvalidConversion")
    ELSE Ok([q EXCEPT !.units = units])

ConvertedTo(q, units) ==
    IF ~units.ok THEN units ELSE ConvertedIn(q, units.val, Composite(units.val))

\* q.convert(target): a new Quantity displayed in the target units
convert(q, target) == ConvertedTo(q, UnitsOf(target))

\* q.get(): { magnitude, units } in the units the Quantity is displayed in
get(q) ==
    [magnitude |-> FromBase(q.magnitude, Composite(q.units).val),
     units     |-> toUnitString(q.units)]

\* q.getWithUnits(target), the older accessor: the magnitude in the target
\* units, the units being the target string as the caller wrote it
WithUnits(c, target) ==
    IF ~c.ok THEN c
    ELSE Ok([magnitude |-> get(c.val).magnitude, units |-> target])

getWithUnits(q, target) == WithUnits(convert(q, target), target)

\* a variant of baseSIUnits with Hz in the place of V
baseSIUnitsHertz ==
    << [unit |-> <<"g">>, prefix |-> Some(<<"k">>)],
       [unit |-> <<"m">>, prefix |-> Undefined],
       [unit |-> <<"s">>, prefix |-> Undefined],
       [unit |-> <<"K">>, prefix |-> Undefined],
       [unit |-> <<"A">>, prefix |-> Undefined],
       [unit |-> <<"m", "o", "l">>, prefix |-> Undefined],
       [unit |-> <<"b">>, prefix |-> Undefined],
       [unit |-> <<"N">>, prefix |-> Undefined],
       [unit |-> <<"P", "a">>, prefix |-> Undefined],
       [unit |-> <<"J">>, prefix |-> Undefined],
       [unit |-> <<"W">>, prefix |-> Undefined],
       [unit |-> <<"C">>, prefix |-> Undefined],
       [unit |-> <<"H", "z">>, prefix |-> Undefined],
       [unit |-> <<"F">>, prefix |-> Undefined],
       [unit |-> <<"o", "h", "m">>, prefix |-> Undefined],
       [unit |-> <<"S">>, prefix |-> Undefined],
       [unit |-> <<"W", "b">>, prefix |-> Undefined],
       [unit |-> <<"T">>, prefix |-> Undefined],
       [unit |-> <<"H">>, prefix |-> Undefined] >>

\* a variant of baseSIUnits with b before mol
baseSIUnitsBitFirst ==
    << [unit |-> <<"g">>, prefix |-> Some(<<"k">>)],
       [unit |-> <<"m">>, prefix |-> Undefined],
       [unit |-> <<"s">>, prefix |-> Undefined],
       [unit |-> <<"K">>, prefix |-> Undefined],
       [unit |-> <<"A">>, prefix |-> Undefined],
       [unit |-> <<"b">>, prefix |-> Undefined],
       [unit |-> <<"m", "o", "l">>, prefix |-> Undefined],
       [unit |-> <<"N">>, prefix |-> Undefined],
       [unit |-> <<"P", "a">>, prefix |-> Undefined],
       [unit |-> <<"J">>, prefix |-> Undefined],
       [unit |-> <<"W">>, prefix |-> Undefined],
       [unit |-> <<"C">>, prefix |-> Undefined],
       [unit |-> <<"V">>, prefix |-> Undefined],
       [unit |-> <<"F">>, prefix |-> Undefined],
       [unit |-> <<"o", "h", "m">>, prefix |-> Undefined],
       [unit |-> <<"S">>, prefix |-> Undefined],
       [unit |-> <<"W", "b">>, prefix |-> Undefined],
       [unit |-> <<"T">>, prefix |-> Undefined],
       [unit |-> <<"H">>, prefix |-> Undefined] >>

\* a variant of baseSIUnits with the gram as the unit of mass
baseSIUnitsGram ==
    << [unit |-> <<"g">>, prefix |-> Undefined],
       [unit |-> <<"m">>, prefix |-> Undefined],
       [unit |-> <<"s">>, prefix |-> Undefined],
       [unit |-> <<"K">>, prefix |-> Undefined],
       [unit |-> <<"A">>, prefix |-> Undefined],
       [unit |-> <<"m", "o", "l">>, prefix |-> Undefined],
       [unit |-> <<"b">>, prefix |-> Undefined],
       [unit |-> <<"N">>, prefix |-> Undefined],
       [unit |-> <<"P", "a">>, prefix |-> Undefined],
       [unit |-> <<"J">>, prefix |-> Undefined],
       [unit |-> <<"W">>, prefix |-> Undefined],
       [unit |-> <<"C">>, prefix |-> Undefined],
       [unit |-> <<"V">>, prefix |-> Undefined],
       [unit |-> <<"F">>, prefix |-> Undefined],
       [unit |-> <<"o", "h", "m">>, prefix |-> Undefined],
       [unit |-> <<"S">>, prefix |-> Undefined],
       [unit |-> <<"W", "b">>, prefix |-> Undefined],
       [unit |-> <<"T">>, prefix |-> Undefined],
       [unit |-> <<"H">>, prefix |-> Undefined] >>

\* baseSIUnits (units.ts:442-469)
baseSIUnits ==
    << [unit |-> <<"g">>, prefix |-> Some(<<"k">>)],
       [unit |-> <<"m">>, prefix |-> Undefined],
       [unit |-> <<"s">>, prefix |-> Undefined],
       [unit |-> <<"K">>, prefix |-> Undefined],
       [unit |-> <<"A">>, prefix |-> Undefined],
       [unit |-> <<"m", "o", "l">>, prefix |-> Undefined],
       [unit |-> <<"b">>, prefix |-> Undefined],
       [unit |-> <<"N">>, prefix |-> Undefined],
       [unit |-> <<"P", "a">>, prefix |-> Undefined],
       [unit |-> <<"J">>, prefix |-> Undefined],
       [unit |-> <<"W">>, prefix |-> Undefined],
       [unit |-> <<"C">>, prefix |-> Undefined],
       [unit |-> <<"V">>, prefix |-> Undefined],
       [unit |-> <<"F">>, prefix |-> Undefined],
       [unit |-> <<"o", "h", "m">>, prefix |-> Undefined],
       [unit |-> <<"S">>, prefix |-> Undefined],
       [unit |-> <<"W", "b">>, prefix |-> Undefined],
       [unit |-> <<"T">>, prefix |-> Undefined],
       [unit |-> <<"H">>, prefix |-> Undefined] >>

\* the entries of baseSIUnits that are base units, and the derived ones
NumBaseUnits == 7

DerivedIndexes == (NumBaseUnits + 1)..Len(baseSIUnits)

\* the basic exponents of the entries of baseSIUnits, by index
SIDimensions ==
    [i \in 1..Len(baseSIUnits) |-> builtInUnits[baseSIUnits[i].unit].d.dimensions]

RECURSIVE SumAbs(_)
SumAbs(v) == IF v = <<>> THEN 0 ELSE Abs(v[1]) + SumAbs(Tail(v))

\* the remaining exponents after taking candidate t = <<index, power>>
Without(rem, si, t) == [j \in 1..numBasicDimensions |-> rem[j] - t[2] * si[t[1]][j]]

\* candidates as <<index, power>>; among candidates of equal merit the power
\* +1 goes before -1 (C.A.s^2/kg.m^2 is S, not ohm^-1: part_000:242), then
\* the list order decides
Tries == {<<i, p>> : i \in DerivedIndexes, p \in {1, -1}}

Earlier(t, u) == t[2] > u[2] \/ (t[2] = u[2] /\ t[1] < u[1])

\* the score every candidate leaves
Scores(rem, si) == [t \in Tries |-> SumAbs(Without(rem, si, t))]

\* a variant of Best: the first candidate of the list, +1 before -1, that
\* lowers the score
BestFirst(score, now) ==
    IF \A t \in Tries : score[t] >= now THEN <<0, 0>>
    ELSE CHOOSE t \in Tries :
             /\ score[t] < now
             /\ \A u \in Tries \ {t} :
                    score[u] < now => (t[1] < u[1] \/ (t[1] = u[1] /\ t[2] > u[2]))

\* the candidate that lowers the score most, the earliest one among equals;
\* <<0, 0>> when no candidate lowers it
Best(score, now) ==
    IF \A t \in Tries : score[t] >= now THEN <<0, 0>>
    ELSE CHOOSE t \in Tries :
             \A u \in Tries \ {t} :
                 \/ score[t] < score[u]
                 \/ score[t] = score[u] /\ Earlier(t, u)

BestTry(rem, si) == Best(Scores(rem, si), SumAbs(rem))

\* add power p of the unit e to a parsed unit list, combining duplicates
AddUnit(list, e, p) ==
    IF \E k \in 1..Len(list) : list[k].unit = e.unit /\ list[k].prefix = e.prefix
    THEN [k \in 1..Len(list) |->
             IF list[k].unit = e.unit /\ list[k].prefix = e.prefix
             THEN [list[k] EXCEPT !.power = @ + p]
             ELSE list[k]]
    ELSE Append(list, ParsedUnit(e.prefix, e.unit, p))

\* the derived units committed for the basic exponents rem, and what
\* remains; t is the best candidate for rem
RECURSIVE PickDerived(_, _, _, _)
PickDerived(rem, list, si, t) ==
    IF t = <<0, 0>> THEN [rem |-> rem, list |-> list]
    ELSE PickDerived(Without(rem, si, t), AddUnit(list, baseSIUnits[t[1]], t[2]),
                     si, BestTry(Without(rem, si, t), si))

\* the slot of the basic dimension the base unit i measures
BaseSlot(si, i) == CHOOSE k \in 1..numBasicDimensions : si[i][k] = 1

\* the remaining basic exponents in the base units kg, m, s, K, A, mol, b
RECURSIVE ExpandBase(_, _, _, _)
ExpandBase(rem, i, list, si) ==
    IF i > NumBaseUnits THEN list
    ELSE ExpandBase(rem, i + 1,
                    IF rem[BaseSlot(si, i)] # 0
                    THEN AddUnit(list, baseSIUnits[i], rem[BaseSlot(si, i)])
                    ELSE list,
                    si)

\* the custom exponents as "_name" units, by slot
CustomUnits(d) ==
    IF d.customDimensionNames.has
    THEN [k \in 1..Len(d.customDimensionNames.v) |->
             ParsedUnit(Undefined, <<"_">> \o d.customDimensionNames.v[k],
                        d.dimensions[numBasicDimensions + k])]
    ELSE <<>>

DropZero(list) == SelectSeq(list, LAMBDA u : u.power # 0)

\* the derived units picked, the rest in base units, then the custom units
Expanded(d, picked, si) ==
    DropZero(ExpandBase(picked.rem, 1, picked.list, si) \o CustomUnits(d))

\* the unit list that expresses the dimensions d, si being SIDimensions
SIUnitsWith(d, basic, si) ==
    IF isDimensionless(d) THEN <<>>
    ELSE Expanded(d, PickDerived(basic, <<>>, si, BestTry(basic, si)), si)

\* q.getSI(): the SI-base magnitude with the canonical SI units
getSI(q) ==
    [magnitude |-> q.magnitude,
     units     |-> toUnitString(SIUnitsWith(q.dimensions,
                                            SubSeq(q.dimensions.dimensions, 1,
                                                   numBasicDimensions),
                                            SIDimensions))]
-----------------------------------------------------------------------------
(* The calls made to the library: one operation per behaviour, its        *)
(* arguments drawn from the sets below.                                   *)

MaxTokenLen == 2

MaxExponentLen == 2

MaxPieces == 3

MaxMagnitude == 2

\* the strings of at most n characters over the alphabet
StringsUpTo(alphabet, n) == UNION {[1..k -> alphabet] : k \in 0..n}

\* the concatenations of at most n pieces
PiecesUpTo(pieces, n) == {Concat(ps) : ps \in UNION {[1..k -> pieces] : k \in 0..n}}

\* a caller's additionalUnits: an exact name that also reads as prefix + unit
\* (km, Gib), and a prefixable unit whose prefixed names also read as binary
\* prefix + b (Mib = M + ib = Mi + b)
ExtraUnits ==
    (<<"k", "m">> :> Unit(<<<<2, 3>>, <<5, 3>>>>, DIST_DIMENSION, NoOffset, FALSE, FALSE))
    @@ (<<"i", "b">> :> Unit(<<>>, INFO_DIMENSIONS, NoOffset, TRUE, FALSE))
    @@ (<<"G", "i", "b">> :> Unit(<<<<3, 1>>>>, INFO_DIMENSIONS, NoOffset, FALSE, FALSE))

\* unit names with and without prefixes, known and unknown
NamedTokens ==
    { <<"c", "m">>,
      <<"k", "m">>,
      <<"m", "m">>,
      <<"MU", "m">>,
      <<"u", "m">>,
      <<"k", "g">>,
      <<"m", "s">>,
      <<"k", "P", "a">>,
      <<"G", "B">>,
      <<"G", "i", "B">>,
      <<"G", "i", "b">>,
      <<"M", "i", "b">>,
      <<"K", "i", "b">>,
      <<"K", "i", "B">>,
      <<"k", "B">>,
      <<"M", "b">>,
      <<"k", "i", "b">>,
      <<"i", "b">>,
      <<"k", "o", "h", "m">>,
      <<"m", "m", "o", "l">>,
      <<"k", "d", "e", "g", "C">>,
      <<"m", "m", "i", "n">>,
      <<"d", "a", "m">>,
      <<"K", "i", "m">>,
      <<"k", "W", "h">>,
      <<"M", "J">>,
      <<"x">>,
      <<"x", "y", "z">>,
      <<"_", "p", "a", "x">>,
      <<"_", "d", "i", "r">>,
      <<"_">>,
      <<"k", "_", "p", "a", "x">>,
      <<"k">>,
      <<"K", "i">>,
      <<"0">>,
      <<"m", "2">> }

\* the names parseSingleUnit is given (without exponent)
TokenInputs ==
    DOMAIN builtInUnits \cup ObjectPrototypeKeys \cup NamedTokens
    \cup StringsUpTo({"m", "k", "G", "i", "b", "_"}, MaxTokenLen)

\* exponent texts: numerals of every kind JavaScript reads, and other text
NamedExponents ==
    { <<"1", "0">>,
      <<"-", "1", "2">>,
      <<"+", "3">>,
      <<"2", ".", "0">>,
      <<"2", ".">>,
      <<"1", ".", "5">>,
      <<".", "5">>,
      <<"1", "e", "1">>,
      <<"1", "e", "-", "1">>,
      <<"2", "e", "0">>,
      <<"1", "e">>,
      <<"e", "1">>,
      <<"0", "x", "1", "0">>,
      <<"0", "x">>,
      <<"0", "b", "1", "1">>,
      <<"0", "o", "7">>,
      <<"-", "0", "x", "1">>,
      <<"I", "n", "f", "i", "n", "i", "t", "y">>,
      <<"-", "I", "n", "f", "i", "n", "i", "t", "y">>,
      <<"N", "a", "N">>,
      <<"2", "^", "3">>,
      <<" ", "2">>,
      <<"2", " ">>,
      <<"a">>,
      <<"0", ".", "0">>,
      <<"0", "0">>,
      <<"-", "0">>,
      <<"+", "0">> }

\* the texts that follow "^"
ExponentInputs ==
    NamedExponents \cup StringsUpTo({"0", "1", "2", "-", "+", "."}, MaxExponentLen)

\* no exponent, and the common ones
FewSuffixes ==
    { <<>>,
      <<"^", "2">>,
      <<"^", "-", "1">>,
      <<"^", "0">>,
      <<"^">> }

FewTokens ==
    { <<"m">>,
      <<"k", "m">>,
      <<"G", "i", "B">>,
      <<"x">>,
      <<"t", "o", "S", "t", "r", "i", "n", "g">>,
      <<>> }

\* every name of the unit table, alone and after every prefix
TableTokens ==
    DOMAIN builtInUnits \cup {k \o u : k \in DOMAIN prefixes, u \in DOMAIN builtInUnits}

\* the unitStr arguments of parseSingleUnit
SingleUnitInputs ==
    {t \o s : t \in TokenInputs, s \in FewSuffixes}
    \cup {t \o <<"^">> \o e : t \in FewTokens, e \in ExponentInputs}
    \cup TableTokens

\* unit strings: those of the tests (part_000) and others of the same kinds
NamedUnitStrings ==
    { <<>>,
      <<"%">>,
      <<"p", "p", "m">>,
      <<"K">>,
      <<"d", "e", "l", "t", "a", "C">>,
      <<"d", "e", "g", "C">>,
      <<"d", "e", "g", "F">>,
      <<"k", "g">>,
      <<"g">>,
      <<"m">>,
      <<"c", "m">>,
      <<"s">>,
      <<"d", "a", "y">>,
      <<"h", "^", "2">>,
      <<"s", "^", "2">>,
      <<"A">>,
      <<"s", "/", "C">>,
      <<"C", " ", "s">>,
      <<"H", "z">>,
      <<"s", "^", "-", "1">>,
      <<"m", "/", "s">>,
      <<"k", "m", "/", "h">>,
      <<"N">>,
      <<"k", "g", "DOT", "m", "/", "s", "^", "2">>,
      <<"s", "^", "2", " ", "N", " ", "/", " ", "m">>,
      <<"F">>,
      <<"s", "^", "4", "DOT", "A", "^", "2", " ", "/", " ", "k", "g", "^", "1", "DOT", "m", "^", "2">>,
      <<"J">>,
      <<"k", "W", "h">>,
      <<"M", "J">>,
      <<"B">>,
      <<"G", "B">>,
      <<"G", "i", "B">>,
      <<"p", "p", "h", "p", "d">>,
      <<"_", "p", "a", "x", "/", "h", "DOT", "_", "d", "i", "r">>,
      <<"_", "p", "a", "x">>,
      <<"_", "p", "a", "x", "/", "_", "p", "a", "x">>,
      <<"p", "p", "h", "p", "d", "DOT", "_", "d", "i", "r", "/", "_", "p", "a", "x">>,
      <<"d", "e", "g", "C", "^", "2">>,
      <<"d", "e", "g", "C", "/", "s">>,
      <<"K", "^", "2">>,
      <<"K", "/", "s">>,
      <<"/", "s">>,
      <<"x", "y", "z">>,
      <<"m", "/", "s", "/", "s">> }

\* pieces of unit strings
UnitPieces ==
    { <<"m">>,
      <<"s">>,
      <<"k", "g">>,
      <<"d", "e", "g", "C">>,
      <<"d", "e", "g", "F">>,
      <<"/">>,
      <<" ">>,
      <<"DOT">>,
      <<"^", "2">>,
      <<"^", "-", "1">> }

\* unit strings with custom dimensions: names in either order, shared between
\* units, cancelled in part and in whole
CustomUnitStrings ==
    { <<"_", "p", "a", "x", "/", "h", "DOT", "_", "d", "i", "r">>,
      <<"_", "d", "i", "r", "^", "-", "1", "DOT", "_", "p", "a", "x", "/", "h">>,
      <<"_", "b", "DOT", "_", "a">>,
      <<"_", "a", "DOT", "_", "b">>,
      <<"_", "a", "DOT", "_", "b", "/", "_", "a">>,
      <<"_", "a", "^", "2", "/", "_", "a">>,
      <<"_", "a", "/", "_", "a">>,
      <<"_", "a", "DOT", "_", "a">>,
      <<"p", "p", "h", "p", "d", "DOT", "_", "p", "a", "x">>,
      <<"p", "p", "h", "p", "d", "/", "_", "d", "i", "r">>,
      <<"p", "p", "h", "p", "d", "DOT", "_", "d", "i", "r">>,
      <<"p", "p", "h", "p", "d", "^", "2">>,
      <<"p", "p", "h", "p", "d", "/", "p", "p", "h", "p", "d">>,
      <<"p", "p", "h", "p", "d", "^", "-", "1">>,
      <<"_", "a", "DOT", "_", "b", "DOT", "_", "c", "DOT", "_", "d">>,
      <<"_", "b", "/", "_", "a", "DOT", "_", "c">>,
      <<"_", "p", "a", "x", "DOT", "m", "/", "_", "p", "a", "x">>,
      <<"_", "b", "DOT", "_", "a", "/", "_", "b">>,
      <<"p", "p", "h", "p", "d", "DOT", "_", "d", "i", "r", "/", "_", "p", "a", "x">>,
      <<"_", "p", "a", "x", "/", "_", "p", "a", "x">>,
      <<"_", "b", "^", "2", "/", "m", "DOT", "_", "a", "^", "3">> }

\* the unitStr arguments of parseUnits, and the units of a Quantity
UnitStringInputs ==
    NamedUnitStrings \cup CustomUnitStrings \cup PiecesUpTo(UnitPieces, MaxPieces)

\* unit strings with negative exponents on either side of the slash, with
\* prefixes and with larger exponents
FormatUnitStrings ==
    { <<"s", "^", "-", "1", "DOT", "N", "^", "-", "1">>,
      <<"m", "^", "-", "1", " ", "s", "^", "-", "2">>,
      <<"m", "/", "s", "^", "-", "1">>,
      <<"m", "^", "-", "1", "/", "s">>,
      <<"m", "^", "-", "1", "/", "s", "^", "-", "1">>,
      <<"k", "g", "^", "-", "2", "/", "m", "^", "-", "1", "DOT", "s">>,
      <<"m", "^", "1", "0">>,
      <<"k", "m", "^", "-", "2">>,
      <<"G", "i", "B", "/", "s">>,
      <<"k", "P", "a", "DOT", "m", "m", "^", "2">>,
      <<"N", "DOT", "m", "/", "k", "g", "^", "2">>,
      <<"m", "^", "+", "1">>,
      <<"m", "^", "1", "e", "1", "/", "s", "^", "0", "x", "2">>,
      <<"G", "i", "b", "/", "M", "i", "b">>,
      <<"N", "^", "-", "1">> }

\* the units of the tests of getSI (part_000:219-245), and the preferred
\* derived units and their inverses
SIUnitStrings ==
    { <<"s", "^", "2", "/", "k", "g", "DOT", "m">>,
      <<"k", "g", "DOT", "m", "^", "2", " ", "/", " ", "A", "DOT", "s", "^", "3">>,
      <<"H", "P">>,
      <<"B", "T", "U">>,
      <<"p", "s", "i">>,
      <<"f", "t">>,
      <<"C", "DOT", "A", "DOT", "s", "^", "2", "/", "k", "g", "DOT", "m", "^", "2">>,
      <<"V", "DOT", "k", "g", "^", "3", "DOT", "b", "^", "2", "DOT", "K", "^", "4", "DOT", "m", "o", "l">>,
      <<"k", "g", "DOT", "m", "^", "2", "DOT", "s", "^", "-", "2", "DOT", "A", "^", "-", "3">>,
      <<"k", "g", "^", "2", "DOT", "m", "^", "2", "DOT", "s", "^", "-", "4", "DOT", "A", "^", "-", "2">>,
      <<"W", "DOT", "s", "^", "2">>,
      <<"C", "DOT", "K", "DOT", "A", "h">>,
      <<"f", "t", "DOT", "l", "b">>,
      <<"k", "m", "/", "h">>,
      <<"H", "z">>,
      <<"k", "g", "DOT", "m", "/", "s", "^", "2">>,
      <<"N">>,
      <<"P", "a">>,
      <<"J">>,
      <<"W">>,
      <<"C">>,
      <<"V">>,
      <<"F">>,
      <<"o", "h", "m">>,
      <<"S">>,
      <<"W", "b">>,
      <<"T">>,
      <<"H">>,
      <<"N", "^", "-", "1">>,
      <<"P", "a", "^", "-", "1">>,
      <<"J", "^", "-", "1">>,
      <<"W", "^", "-", "1">>,
      <<"C", "^", "-", "1">>,
      <<"V", "^", "-", "1">>,
      <<"F", "^", "-", "1">>,
      <<"o", "h", "m", "^", "-", "1">>,
      <<"S", "^", "-", "1">>,
      <<"W", "b", "^", "-", "1">>,
      <<"T", "^", "-", "1">>,
      <<"H", "^", "-", "1">>,
      <<"k", "g", "DOT", "m", "^", "2">>,
      <<"N", "DOT", "m">>,
      <<"J", "/", "s">>,
      <<"V", "DOT", "A">>,
      <<"_", "p", "a", "x", "/", "m", "i", "n">>,
      <<"N", "DOT", "P", "a">>,
      <<"J", "DOT", "W", "DOT", "C">>,
      <<"V", "^", "2", "/", "F", "^", "2">>,
      <<"N", "^", "2", "DOT", "H", "/", "T">> }

\* the dimensionless and the temperature unit strings
ScalarUnitStrings ==
    { <<>>,
      <<"%">>,
      <<"p", "p", "m">>,
      <<"K">>,
      <<"d", "e", "l", "t", "a", "C">>,
      <<"d", "e", "g", "C">>,
      <<"d", "e", "g", "F">> }

\* magnitudes: small integers and halves, and magnitudes of the tests
MagnitudeInputs ==
    {NFrac(n, d) : n \in (-MaxMagnitude)..MaxMagnitude, d \in {1, 2}}
    \cup {NInt(n) : n \in {15, 32, 50, 70, 100, 212, 300, -40}}
    \cup {NDec(27315, -2), NDec(2685, -2)}

\* (magnitude, units) of new Quantity(magnitude, { units })
QuantityInputs ==
    ({NInt(1), NInt(100)} \X NamedUnitStrings) \cup (MagnitudeInputs \X ScalarUnitStrings)
    \cup ({NInt(n) : n \in {1, 5, 10, 12, 36, 1234}} \X SIUnitStrings)

\* (magnitude, units, target) of new Quantity(magnitude, { units }).convert(target)
ConvertInputs ==
    ({NInt(1), NInt(100), NInt(500)} \X NamedUnitStrings \X NamedUnitStrings)
    \cup (MagnitudeInputs \X ScalarUnitStrings \X ScalarUnitStrings)

\* exponent vectors of n entries: zeros but for the first or the last entry
VectorsOf(n) == {[i \in 1..n |-> IF i = k THEN v ELSE 0] : k \in {1, n}, v \in {-1, 0, 1}}

\* custom name lists: none, empty, sorted, unsorted, with duplicates, of four
\* and of five names
NameListInputs ==
    { Undefined,
      Some(<<>>),
      Some(<<<<"a">>>>),
      Some(<<<<"b">>>>),
      Some(<<<<"a">>, <<"b">>>>),
      Some(<<<<"b">>, <<"a">>>>),
      Some(<<<<"a">>, <<"a">>>>),
      Some(<<<<"a">>, <<"a", "b">>>>),
      Some(<<<<"B">>, <<"a">>>>),
      Some(<<<<"a">>, <<"b">>, <<"b">>, <<"c">>>>),
      Some(<<<<"a">>, <<"b">>, <<"c">>, <<"d">>>>),
      Some(<<<<"a">>, <<"b">>, <<"c">>, <<"d">>, <<"e">>>>) }

\* the arguments of new Dimensions(dimensions, customDimensionNames, offset):
\* vectors of 7 to 13 exponents
DimensionsInputs ==
    {[dimensions |-> d, customDimensionNames |-> c, offset |-> o] :
        d \in UNION {VectorsOf(n) : n \in (numBasicDimensions - 1)..(numBasicDimensions + 5)},
        c \in NameListInputs, o \in {0, 1}}

\* the arguments of the Dimensions that are compared: at most one custom name
EqualToInputs ==
    {x \in DimensionsInputs :
        /\ Len(x.dimensions) \in numBasicDimensions..(numBasicDimensions + 1)
        /\ Len(x.customDimensionNames.v) <= 1}

NoDimensions == [dimensions |-> <<>>, customDimensionNames |-> Undefined, offset |-> 0]

NoResult == [ok |-> FALSE, val |-> <<>>, err |-> "pending"]

NoArg == [magnitude |-> NZero, units |-> <<>>, target |-> <<>>,
          unitStr |-> <<>>, additionalUnits |-> Undefined,
          this |-> NoDimensions, other |-> NoDimensions]

Init ==
    /\ pc = "ready"
    /\ res = NoResult
    /\ \/ /\ op = "parseSingleUnit"
          /\ \E s \in SingleUnitInputs, a \in {Undefined, Some(ExtraUnits)} :
                 arg = [NoArg EXCEPT !.unitStr = s, !.additionalUnits = a]
       \/ /\ op = "parseUnits"
          /\ \E s \in UnitStringInputs, a \in {Undefined, Some(ExtraUnits)} :
                 arg = [NoArg EXCEPT !.unitStr = s, !.additionalUnits = a]
       \/ /\ op = "toUnitString"
          /\ \E s \in UnitStringInputs \cup FormatUnitStrings,
                a \in {Undefined, Some(ExtraUnits)} :
                 arg = [NoArg EXCEPT !.unitStr = s, !.additionalUnits = a]
       \/ /\ op = "composite"
          /\ \E s \in UnitStringInputs : arg = [NoArg EXCEPT !.units = s]
       \/ /\ op = "convert"
          /\ \E c \in ConvertInputs :
                 arg = [NoArg EXCEPT !.magnitude = c[1], !.units = c[2], !.target = c[3]]
       \/ /\ op = "getWithUnits"
          /\ \E c \in ConvertInputs :
                 arg = [NoArg EXCEPT !.magnitude = c[1], !.units = c[2], !.target = c[3]]
       \/ /\ op = "Dimensions"
          /\ \E x \in DimensionsInputs : arg = [NoArg EXCEPT !.this = x]
       \/ /\ op = "equalTo"
          /\ \E x \in EqualToInputs, y \in EqualToInputs :
                 arg = [NoArg EXCEPT !.this = x, !.other = y]
       \/ /\ op = "pickUnits"
          /\ \E s \in NamedUnitStrings \cup SIUnitStrings :
                 \E n \in 1..MaxMagnitude :
                     arg = [NoArg EXCEPT !.magnitude = NInt(n), !.units = s]
       \/ /\ op = "getSI"
          /\ \E q \in QuantityInputs :
                 arg = [NoArg EXCEPT !.magnitude = q[1], !.units = q[2]]

\* the call returns res, or throws the error res names
Return(r) ==
    /\ res' = r
    /\ pc' = "done"
    /\ UNCHANGED <<op, arg>>

\* new Dimensions(dimensions, customDimensionNames, offset)
NewDimensionsOf(x) == Dimensions(x.dimensions, x.customDimensionNames, x.offset)

Construct ==
    /\ pc = "ready"
    /\ op = "Dimensions"
    /\ Return(NewDimensionsOf(arg.this))

\* a.equalTo(b), b.equalTo(a) and a.equalTo(a) of two Dimensions
Compared(a, b) ==
    IF ~a.ok THEN a
    ELSE IF ~b.ok THEN b
    ELSE Ok([this |-> a.val, other |-> b.val,
             equal |-> equalTo(a.val, b.val),
             converse |-> equalTo(b.val, a.val),
             self |-> equalTo(a.val, a.val)])

EqualTo ==
    /\ pc = "ready"
    /\ op = "equalTo"
    /\ Return(Compared(NewDimensionsOf(arg.this), NewDimensionsOf(arg.other)))

\* parseSingleUnit(unitStr, additionalUnits)
ParseSingleUnit ==
    /\ pc = "ready"
    /\ op = "parseSingleUnit"
    /\ Return(parseSingleUnit(arg.unitStr, arg.additionalUnits))

\* parseUnits(unitStr, additionalUnits)
ParseUnits ==
    /\ pc = "ready"
    /\ op = "parseUnits"
    /\ Return(parseUnits(arg.unitStr, arg.additionalUnits))

\* toUnitString(parseUnits(unitStr, additionalUnits)): the parsed list, its
\* text, and what parseUnits makes of the text
Reparsed(units, text, additionalUnits) ==
    [units |-> units, text |-> text, again |-> parseUnits(text, additionalUnits)]

Formatted(units, additionalUnits) ==
    IF ~units.ok THEN units
    ELSE Ok(Reparsed(units.val, toUnitString(units.val), additionalUnits))

ToUnitString ==
    /\ pc = "ready"
    /\ op = "toUnitString"
    /\ Return(Formatted(parseUnits(arg.unitStr, arg.additionalUnits), arg.additionalUnits))

\* the composite of a unit string, as the construction of a Quantity reduces it
Reduced(units) == IF ~units.ok THEN units ELSE Composite(units.val)

CompositeOf(unitStr) == Reduced(UnitsOf(unitStr))

ReduceUnits ==
    /\ pc = "ready"
    /\ op = "composite"
    /\ Return(CompositeOf(arg.units))

\* new Quantity(magnitude, { units }).convert(target).get()
Got(c) == IF ~c.ok THEN c ELSE Ok(get(c.val))

Converted(q, target) == IF ~q.ok THEN q ELSE Got(convert(q.val, target))

ConvertGet(magnitude, unitStr, target) ==
    Converted(NewQuantity(magnitude, unitStr), target)

Convert ==
    /\ pc = "ready"
    /\ op = "convert"
    /\ Return(ConvertGet(arg.magnitude, arg.units, arg.target))

\* q = new Quantity(magnitude, { units }), then q.convert(target).get() and
\* q.getWithUnits(target): what the two return, and q after the calls (a
\* Quantity is immutable: convert returns a new one)
Accessors(q, c, legacy) ==
    IF ~c.ok THEN c
    ELSE Ok([quantity |-> q, get |-> get(c.val), getWithUnits |-> legacy.val])

BothAccessors(q, target) ==
    IF ~q.ok THEN q
    ELSE Accessors(q.val, convert(q.val, target), getWithUnits(q.val, target))

GetWithUnits ==
    /\ pc = "ready"
    /\ op = "getWithUnits"
    /\ Return(BothAccessors(NewQuantity(arg.magnitude, arg.units), arg.target))

\* new Quantity(magnitude, { units }).getSI()
SIOf(q) == IF ~q.ok THEN q ELSE Ok(getSI(q.val))

GetSIOf(magnitude, unitStr) == SIOf(NewQuantity(magnitude, unitStr))

GetSI ==
    /\ pc = "ready"
    /\ op = "getSI"
    /\ Return(GetSIOf(arg.magnitude, arg.units))

\* getSI, one candidate at a time.  The loop over the derived units starts
\* with the basic exponents of the quantity and no unit; a dimensionless
\* quantity, and units no Quantity can be built of, do not enter it; rounds
\* counts the candidates committed.
Picking(q) ==
    [quantity |-> q,
     rem      |-> SubSeq(q.dimensions.dimensions, 1, numBasicDimensions),
     list     |-> <<>>,
     last     |-> <<0, 0>>,
     rounds   |-> 0]

Started(q) ==
    IF ~q.ok \/ isDimensionless(q.val.dimensions)
    THEN [pc |-> "done", res |-> SIOf(q)]
    ELSE [pc |-> "picking", res |-> Ok(Picking(q.val))]

Goto(s) ==
    /\ pc' = s.pc
    /\ res' = s.res
    /\ UNCHANGED <<op, arg>>

StartPicking ==
    /\ pc = "ready"
    /\ op = "pickUnits"
    /\ Goto(Started(NewQuantity(arg.magnitude, arg.units)))

\* one round of the loop: the candidate t is committed
Committed(s, t, si) ==
    [s EXCEPT !.rem = Without(s.rem, si, t),
              !.list = AddUnit(s.list, baseSIUnits[t[1]], t[2]),
              !.last = t,
              !.rounds = @ + 1]

CommitWith(s, t) ==
    /\ t # <<0, 0>>
    /\ res' = Ok(Committed(s, t, SIDimensions))
    /\ UNCHANGED <<pc, op, arg>>

Commit ==
    /\ pc = "picking"
    /\ CommitWith(res.val, BestTry(res.val.rem, SIDimensions))

\* no candidate lowers the score: what remains is written in base units
Finished(s) ==
    Ok([magnitude |-> s.quantity.magnitude,
        units     |-> toUnitString(Expanded(s.quantity.dimensions, s, SIDimensions))])

Finish ==
    /\ pc = "picking"
    /\ BestTry(res.val.rem, SIDimensions) = <<0, 0>>
    /\ Return(Finished(res.val))

Next ==
    \/ Construct
    \/ EqualTo
    \/ ParseSingleUnit
    \/ ParseUnits
    \/ ToUnitString
    \/ ReduceUnits
    \/ Convert
    \/ GetWithUnits
    \/ GetSI
    \/ StartPicking
    \/ Commit
    \/ Finish

Spec == Init /\ [][Next]_vars


-----------------------------------------------------------------------------
(* The properties checked of the library.                                  *)

\* the call op has returned or thrown
Done(o) == pc = "done" /\ op = o

\* the call threw the error named
Fails(r, kind) == ~r.ok /\ r.err = kind

\* the composite dimensions, scale and offset of a unit string that a
\* Quantity accepts
DimsOf(unitStr) == CompositeOf(unitStr).val.dims

ScaleOf(unitStr) == CompositeOf(unitStr).val.scale

OffsetOf(unitStr) == CompositeOf(unitStr).val.offset

\* equal Dimensions, the offsets ignored: the same exponent vector and the
\* same list of custom names
SameDimensions(a, b) ==
    /\ a.dimensions = b.dimensions
    /\ a.customDimensionNames = b.customDimensionNames

TemperatureUnitStrings == {<<"K">>, <<"d", "e", "l", "t", "a", "C">>, <<"d", "e", "g", "C">>, <<"d", "e", "g", "F">>}

\* the invalid conversions of the tests (part_000:165-184)
InvalidConversions ==
    { <<<<"k", "g">>, <<"m">>>>, <<<<"d", "a", "y">>, <<"k", "g">>>>, <<<<"A">>, <<"s", "/", "C">>>>, <<<<"A">>, <<"C", " ", "s">>>> }

C2_OffsetAddedBeforeScaling ==
    (Done("convert") /\ res.ok) =>
        res.val.magnitude =
            NSub(NDiv(NMul(NAdd(arg.magnitude, OffsetOf(arg.units)), ScaleOf(arg.units)),
                      ScaleOf(arg.target)),
                 OffsetOf(arg.target))

\* C2, amended: the offsets of the unit table are shifts of the SI-base
\* magnitude, so the magnitude of a conversion is
\* (m_in * scale_in + offset_in - offset_out) / scale_out.
C2_OffsetAddedAfterScaling ==
    (Done("convert") /\ res.ok) =>
        res.val.magnitude =
            NDiv(NSub(NAdd(NMul(arg.magnitude, ScaleOf(arg.units)), OffsetOf(arg.units)),
                      OffsetOf(arg.target)),
                 ScaleOf(arg.target))

\* 100 degF has been converted to degC: 37.777...
C2_Witness ==
    /\ Done("convert")
    /\ arg.magnitude = NInt(100)
    /\ arg.units = <<"d", "e", "g", "F">>
    /\ arg.target = <<"d", "e", "g", "C">>
    /\ res.ok
    /\ res.val.magnitude = NFrac(340, 9)

\* the conversion of the units to the target has returned the magnitude m
Converts(units, target, m) ==
    (Done("convert") /\ arg.units = units /\ arg.target = target) =>
        res.ok /\ res.val.magnitude = m

\* C3: degC to degF is x * 9/5 + 32, degF to degC is (x - 32) * 5/9, K to
\* degC is x - 273.15, degC to degC is x, and getSI of x degC is x + 273.15 K.
C3_TemperatureConversions ==
    /\ Converts(<<"d", "e", "g", "C">>, <<"d", "e", "g", "F">>, NAdd(NMul(arg.magnitude, NFrac(9, 5)), NInt(32)))
    /\ Converts(<<"d", "e", "g", "F">>, <<"d", "e", "g", "C">>, NMul(NSub(arg.magnitude, NInt(32)), NFrac(5, 9)))
    /\ Converts(<<"K">>, <<"d", "e", "g", "C">>, NSub(arg.magnitude, NFrac(27315, 100)))
    /\ Converts(<<"d", "e", "g", "C">>, <<"d", "e", "g", "C">>, arg.magnitude)
    /\ (Done("getSI") /\ arg.units = <<"d", "e", "g", "C">>) =>
           /\ res.ok
           /\ res.val.magnitude = NAdd(arg.magnitude, NFrac(27315, 100))
           /\ res.val.units = <<"K">>

\* 100 degC has been converted to degF: 212
C3_Witness ==
    /\ Done("convert")
    /\ arg.magnitude = NInt(100)
    /\ arg.units = <<"d", "e", "g", "C">>
    /\ arg.target = <<"d", "e", "g", "F">>
    /\ res.ok
    /\ res.val.magnitude = NInt(212)

\* the units that have an offset
OffsetUnitNames == {<<"d", "e", "g", "C">>, <<"d", "e", "g", "F">>}

\* exactly one sub-unit, to the power 1
IsSolitary(units) == Len(units) = 1 /\ units[1].power = 1

\* the reduction of the one unit named has the offset given
SolitaryOffset(units, name, offset) ==
    units = <<ParsedUnit(Undefined, name, 1)>> => res.ok /\ res.val.offset = offset

\* what C4 says of the reduction of a parsed unit list
OffsetRule(units) ==
    /\ (res.ok /\ res.val.offset # NZero) =>
           IsSolitary(units) /\ units[1].unit \in OffsetUnitNames
    /\ ((\E i \in 1..Len(units) : units[i].unit \in OffsetUnitNames)
            /\ ~IsSolitary(units)) => Fails(res, "InvalidOffsetUse")
    /\ SolitaryOffset(units, <<"d", "e", "g", "C">>, NFrac(27315, 100))
    /\ SolitaryOffset(units, <<"d", "e", "g", "F">>, NFrac(45967, 180))

\* C4: the composite of a parsed unit list has an offset only when the list
\* is one sub-unit with power 1 whose unit has an offset (degC: 273.15, degF:
\* 255.372...); every other list with degC or degF in it fails with
\* InvalidOffsetUse.
C4_OffsetOnlyWhenSolitary ==
    (Done("composite") /\ UnitsOf(arg.units).ok) => OffsetRule(UnitsOf(arg.units).val)

\* the reduction of "degC/s" has thrown InvalidOffsetUse
C4_Witness ==
    /\ Done("composite")
    /\ arg.units = <<"d", "e", "g", "C", "/", "s">>
    /\ Fails(res, "InvalidOffsetUse")

\* 1 = 100 % = 1e6 ppm: the value of one of each dimensionless unit
DimensionlessFactor ==
    (<<>> :> NOne) @@ (<<"%">> :> NFrac(1, 100)) @@ (<<"p", "p", "m">> :> NFrac(1, 1000000))

\* C5: "%", "ppm" and the empty unit string convert into each other with
\* 1 = 100 % = 1e6 ppm, and a conversion to the empty target succeeds only
\* when every exponent of the source's dimensions is 0.
C5_DimensionlessClosure ==
    /\ (Done("convert") /\ arg.units \in DOMAIN DimensionlessFactor
            /\ arg.target \in DOMAIN DimensionlessFactor) =>
           /\ res.ok
           /\ res.val.magnitude =
                  NDiv(NMul(arg.magnitude, DimensionlessFactor[arg.units]),
                       DimensionlessFactor[arg.target])
    /\ (Done("convert") /\ arg.target = <<>> /\ res.ok) =>
           \A i \in DOMAIN DimsOf(arg.units).dimensions :
               DimsOf(arg.units).dimensions[i] = 0

\* 15 % has been converted to the empty unit: 0.15
C5_Witness ==
    /\ Done("convert")
    /\ arg.magnitude = NInt(15)
    /\ arg.units = <<"%">>
    /\ arg.target = <<>>
    /\ res.ok
    /\ res.val.magnitude = NFrac(15, 100)

\* the token of a unit string: what comes before the first "^"
TokenOf(unitStr) ==
    IF \E i \in 1..Len(unitStr) : unitStr[i] = "^"
    THEN SubSeq(unitStr, 1,
                (CHOOSE i \in 1..Len(unitStr) :
                     unitStr[i] = "^" /\ \A j \in 1..(i - 1) : unitStr[j] # "^") - 1)
    ELSE unitStr

\* the text after the first "^"
SuffixOf(unitStr) == SubSeq(unitStr, Len(TokenOf(unitStr)) + 2, Len(unitStr))

HasCaret(unitStr) == \E i \in 1..Len(unitStr) : unitStr[i] = "^"

\* the four interpretations of a token
IsExact(token, units) == token \in DOMAIN units

IsCustom(token) == token # <<>> /\ token[1] = "_"

IsMetric(token, units) ==
    /\ Len(token) >= 1
    /\ SubSeq(token, 1, 1) \in {k \in DOMAIN prefixes : Len(k) = 1}
    /\ Tail(token) \in DOMAIN units
    /\ units[Tail(token)].prefixable

IsBinary(token, units) ==
    /\ Len(token) >= 2
    /\ SubSeq(token, 1, 2) \in {k \in DOMAIN prefixes : Len(k) = 2}
    /\ SubSeq(token, 3, Len(token)) \in DOMAIN units
    /\ units[SubSeq(token, 3, Len(token))].binaryPrefixable

\* the call returned the unit with the prefix
Resolved(r, prefix, unit) == r.ok /\ r.val.prefix = prefix /\ r.val.unit = unit

\* the first applicable interpretation of the token, in the order (a) to (d)
FirstInterpretation(r, token, units) ==
    IF IsExact(token, units) THEN Resolved(r, Undefined, token)
    ELSE IF IsCustom(token) THEN Resolved(r, Undefined, token)
    ELSE IF IsMetric(token, units)
    THEN Resolved(r, Some(SubSeq(token, 1, 1)), Tail(token))
    ELSE IF IsBinary(token, units)
    THEN Resolved(r, Some(SubSeq(token, 1, 2)), SubSeq(token, 3, Len(token)))
    ELSE TRUE

\* the token named is resolved to the unit with the prefix
ResolvedAs(name, prefix, unit) ==
    TokenOf(arg.unitStr) = name => Resolved(res, prefix, unit)

\* C6: parseSingleUnit resolves a token with a valid exponent to the first
\* applicable of (a) exact name of the unit table, (b) custom unit "_...",
\* (c) one-character prefix + prefixable unit, (d) two-character prefix +
\* binary-prefixable unit: c is the speed of light, cm is c + m, min is
\* minutes, GB is G + B, GiB is Gi + B.
C6_FirstInterpretationWins ==
    (Done("parseSingleUnit") /\ ~Fails(res, "InvalidExponent")) =>
        /\ FirstInterpretation(res, TokenOf(arg.unitStr), MergedUnits(arg.additionalUnits))
        /\ ResolvedAs(<<"c">>, Undefined, <<"c">>)
        /\ ResolvedAs(<<"c", "m">>, Some(<<"c">>), <<"m">>)
        /\ ResolvedAs(<<"m", "i", "n">>, Undefined, <<"m", "i", "n">>)
        /\ ResolvedAs(<<"G", "B">>, Some(<<"G">>), <<"B">>)
        /\ ResolvedAs(<<"G", "i", "B">>, Some(<<"G", "i">>), <<"B">>)

\* "km" has been parsed with a table that has a unit km: the exact name has
\* won over k + m
C6_Witness ==
    /\ Done("parseSingleUnit")
    /\ arg.unitStr = <<"k", "m">>
    /\ arg.additionalUnits.has
    /\ res.ok
    /\ res.val = ParsedUnit(Undefined, <<"k", "m">>, 1)

\* C7: a token that is no entry of the unit table, does not start with "_"
\* and has no prefix decomposition is rejected with UnknownUnit.
C7_UnknownTokenRejected ==
    (/\ Done("parseSingleUnit")
     /\ ~Fails(res, "InvalidExponent")
     /\ ~IsExact(TokenOf(arg.unitStr), MergedUnits(arg.additionalUnits))
     /\ ~IsCustom(TokenOf(arg.unitStr))
     /\ ~IsMetric(TokenOf(arg.unitStr), MergedUnits(arg.additionalUnits))
     /\ ~IsBinary(TokenOf(arg.unitStr), MergedUnits(arg.additionalUnits)))
        => Fails(res, "UnknownUnit")

\* a signed integer literal: an optional sign and decimal digits
IsIntegerLiteral(s) ==
    /\ s # <<>>
    /\ LET digits == IF s[1] \in {"+", "-"} THEN Tail(s) ELSE s
       IN  digits # <<>> /\ \A i \in 1..Len(digits) : digits[i] \in {DecDigits[k] : k \in 1..10}

\* the value of a signed integer literal
RECURSIVE LiteralDigits(_, _)
LiteralDigits(s, acc) ==
    IF s = <<>> THEN acc
    ELSE LiteralDigits(Tail(s), 10 * acc + (CHOOSE k \in 0..9 : DecDigits[k + 1] = s[1]))

LiteralValue(s) ==
    IF s[1] = "-" THEN -LiteralDigits(Tail(s), 0)
    ELSE IF s[1] = "+" THEN LiteralDigits(Tail(s), 0)
    ELSE LiteralDigits(s, 0)

\* the call did not pass the exponent check with any other power
PowerIs(r, power) == ~Fails(r, "InvalidExponent") /\ (r.ok => r.val.power = power)

\* C8 as the specification states it: the exponent is accepted only when the
\* text after "^" is a signed integer literal other than 0, the power is that
\* integer, and any other text fails with InvalidExponent.
C8_ExponentIsIntegerLiteral ==
    Done("parseSingleUnit") =>
        IF ~HasCaret(arg.unitStr) THEN PowerIs(res, 1)
        ELSE IF IsIntegerLiteral(SuffixOf(arg.unitStr))
                /\ LiteralValue(SuffixOf(arg.unitStr)) # 0
        THEN PowerIs(res, LiteralValue(SuffixOf(arg.unitStr)))
        ELSE Fails(res, "InvalidExponent")

\* the text after "^" has the power given, or is rejected when the power is 0
SuffixGives(suffix, power) ==
    (HasCaret(arg.unitStr) /\ SuffixOf(arg.unitStr) = suffix) =>
        IF power = 0 THEN Fails(res, "InvalidExponent") ELSE PowerIs(res, power)

\* C8, amended: the exponent is accepted only when Number(text after "^") is
\* an integer other than 0, and the power is that number: so are "2", "-1",
\* "+3" and also "2.0", "1e1", "0x10", " 2"; a value of 0, an empty text, a
\* fraction, and text that is no number fail with InvalidExponent.
C8_ExponentIsIntegerValue ==
    Done("parseSingleUnit") =>
        /\ IF ~HasCaret(arg.unitStr) THEN PowerIs(res, 1)
           ELSE IF IsInteger(Number(SuffixOf(arg.unitStr)))
                   /\ Number(SuffixOf(arg.unitStr)).v # NZero
           THEN PowerIs(res, NToInt(Number(SuffixOf(arg.unitStr)).v))
           ELSE Fails(res, "InvalidExponent")
        /\ SuffixGives(<<"2">>, 2)
        /\ SuffixGives(<<"-", "1">>, -1)
        /\ SuffixGives(<<"+", "3">>, 3)
        /\ SuffixGives(<<"-", "1", "2">>, -12)
        /\ SuffixGives(<<"2", ".", "0">>, 2)
        /\ SuffixGives(<<"1", "e", "1">>, 10)
        /\ SuffixGives(<<"0", "x", "1", "0">>, 16)
        /\ SuffixGives(<<" ", "2">>, 2)
        /\ SuffixGives(<<>>, 0)
        /\ SuffixGives(<<"0">>, 0)
        /\ SuffixGives(<<"-", "0">>, 0)
        /\ SuffixGives(<<"1", ".", "5">>, 0)
        /\ SuffixGives(<<".", "5">>, 0)
        /\ SuffixGives(<<"a">>, 0)
        /\ SuffixGives(<<"2", "^", "3">>, 0)
        /\ SuffixGives(<<"N", "a", "N">>, 0)
        /\ SuffixGives(<<"I", "n", "f", "i", "n", "i", "t", "y">>, 0)

\* "m^2.0" has been parsed: m to the power 2
C8_Witness ==
    /\ Done("parseSingleUnit")
    /\ arg.unitStr = <<"m", "^", "2", ".", "0">>
    /\ res.ok
    /\ res.val = ParsedUnit(Undefined, <<"m">>, 2)

\* C9 as the specification states it: "/s" parses to s with the power -1.
C9_DenominatorOnlyAccepted ==
    (Done("parseUnits") /\ arg.unitStr = <<"/", "s">>) =>
        res.ok /\ res.val = <<ParsedUnit(Undefined, <<"s">>, -1)>>

\* the positions of "/" in a unit string
Slashes(unitStr) == {i \in 1..Len(unitStr) : unitStr[i] = "/"}

\* the two sides of a unit string with one "/"
NumeratorOf(unitStr) == SubSeq(unitStr, 1, (CHOOSE i \in Slashes(unitStr) : TRUE) - 1)

DenominatorOf(unitStr) ==
    SubSeq(unitStr, (CHOOSE i \in Slashes(unitStr) : TRUE) + 1, Len(unitStr))

\* the sub-units of one side, every exponent multiplied by sign
SideUnits(side, additionalUnits, sign) ==
    [i \in 1..Len(Parts(side)) |->
        [parseSingleUnit(Parts(side)[i], additionalUnits).val
            EXCEPT !.power = @ * sign]]

\* C9, amended: parseUnits does not accept a purely-denominator unit string
\* such as "/s": the blank numerator side is read as one empty unit name and
\* the call fails with UnknownUnit (no unit has the empty name); a string
\* "a/b" that is accepted yields the sub-units of a followed by the sub-units
\* of b with their exponents negated.
C9_DenominatorOnlyRejected ==
    (Done("parseUnits") /\ Cardinality(Slashes(arg.unitStr)) = 1) =>
        /\ (Trim(NumeratorOf(arg.unitStr)) = <<>>
                /\ <<>> \notin DOMAIN MergedUnits(arg.additionalUnits))
               => Fails(res, "UnknownUnit")
        /\ res.ok =>
               res.val = SideUnits(NumeratorOf(arg.unitStr), arg.additionalUnits, 1)
                         \o SideUnits(DenominatorOf(arg.unitStr), arg.additionalUnits, -1)

\* parseUnits("/s") has thrown UnknownUnit
C9_Witness ==
    /\ Done("parseUnits")
    /\ arg.unitStr = <<"/", "s">>
    /\ Fails(res, "UnknownUnit")

\* C10 as the specification states it: parsing the empty unit string yields
\* the empty list and never an error.
C10_EmptyStringParses ==
    (Done("parseUnits") /\ arg.unitStr = <<>>) => res.ok /\ res.val = <<>>

\* C10, amended: the empty unit string denotes the dimensionless unit of a
\* Quantity (composite scale 1, dimensions Dimensionless, no offset, no
\* error), but parseUnits does not accept it: parseUnits("") fails with
\* UnknownUnit (no unit has the empty name).
C10_EmptyStringOnlyForQuantity ==
    /\ (Done("parseUnits") /\ arg.unitStr = <<>>
            /\ <<>> \notin DOMAIN MergedUnits(arg.additionalUnits))
           => Fails(res, "UnknownUnit")
    /\ (Done("composite") /\ arg.units = <<>>) =>
           /\ res.ok
           /\ res.val.scale = NOne
           /\ res.val.dims = Dimensionless
           /\ res.val.offset = NZero

\* parseUnits("") has thrown UnknownUnit
C10_Witness ==
    /\ Done("parseUnits")
    /\ arg.unitStr = <<>>
    /\ ~arg.additionalUnits.has
    /\ Fails(res, "UnknownUnit")


\* one entry of a unit string, the power 1 or -1 left out and the sign of
\* every other power dropped
EntryText(u) ==
    PrefixText(u) \o u.unit \o
    (IF Abs(u.power) # 1 THEN <<"^">> \o NatToString(Abs(u.power)) ELSE <<>>)

\* one entry with its signed power
SignedEntryText(u) == PrefixText(u) \o u.unit \o <<"^">> \o IntToString(u.power)

PositiveOf(units) == SelectSeq(units, LAMBDA u : u.power > 0)

NegativeOf(units) == SelectSeq(units, LAMBDA u : u.power < 0)

EntryTexts(units) == [i \in 1..Len(units) |-> EntryText(units[i])]

\* the unit string C11 describes
ExpectedText(units) ==
    IF NegativeOf(units) = <<>> THEN Join(EntryTexts(units), <<"DOT">>)
    ELSE IF PositiveOf(units) = <<>>
    THEN Join([i \in 1..Len(units) |-> SignedEntryText(units[i])], <<"DOT">>)
    ELSE Join(EntryTexts(PositiveOf(units)), <<"DOT">>) \o <<"/">>
         \o Join(EntryTexts(NegativeOf(units)), <<"DOT">>)

\* the text has an entry whose exponent is written as ^1
HasPowerOne(text) ==
    \E i \in 1..(Len(text) - 1) :
        /\ text[i] = "^"
        /\ text[i + 1] = "1"
        /\ (i + 1 = Len(text) \/ text[i + 2] \in {"DOT", "/"})

HasSpace(text) == \E i \in 1..Len(text) : IsWhiteSpace(text[i])

\* C11: toUnitString writes the entries of positive power in list order,
\* joined by the middle dot, then "/" and the entries of negative power,
\* each as prefix + unit + "^" + |power| (the exponent left out when |power|
\* is 1); a list of negative powers only is written with every power
\* explicit and signed (N^-1, s^-1); the text has no exponent ^1 and no
\* space.
C11_FormatterOutput ==
    (Done("toUnitString") /\ res.ok) =>
        /\ res.val.text = ExpectedText(res.val.units)
        /\ ~HasPowerOne(res.val.text)
        /\ ~HasSpace(res.val.text)
        /\ arg.unitStr = <<"N", "^", "-", "1">> => res.val.text = <<"N", "^", "-", "1">>
        /\ arg.unitStr = <<"s", "^", "-", "1">> => res.val.text = <<"s", "^", "-", "1">>

\* "kg^-2/m^-1.s" has been parsed and written as "m/kg^2.s"
C11_Witness ==
    /\ Done("toUnitString")
    /\ arg.unitStr = <<"k", "g", "^", "-", "2", "/", "m", "^", "-", "1", "DOT", "s">>
    /\ res.ok
    /\ res.val.text = <<"m", "/", "k", "g", "^", "2", "DOT", "s">>

\* the entries of a parsed unit list as a multiset
BagOfUnits(units) ==
    [u \in {units[i] : i \in 1..Len(units)} |->
        Cardinality({i \in 1..Len(units) : units[i] = u})]

\* C12: for every unit string that parseUnits accepts, the text toUnitString
\* writes of the parsed list is accepted by parseUnits as well and parses to
\* the same multiset of (prefix, unit, power) entries.
C12_FormatterRoundTrip ==
    (Done("toUnitString") /\ res.ok) =>
        /\ res.val.again.ok
        /\ BagOfUnits(res.val.again.val) = BagOfUnits(res.val.units)

\* "m^-1/s^-1" has been written as "s/m" and parsed again: the same entries
\* in another order
C12_Witness ==
    /\ Done("toUnitString")
    /\ arg.unitStr = <<"m", "^", "-", "1", "/", "s", "^", "-", "1">>
    /\ res.ok
    /\ res.val.text = <<"s", "/", "m">>
    /\ res.val.again.ok
    /\ res.val.again.val # res.val.units
    /\ BagOfUnits(res.val.again.val) = BagOfUnits(res.val.units)

\* C13: q.convert(t).get() returns as units the text toUnitString writes of
\* the parsed target (no space, no exponent ^1: "s^4.A^2 / kg^1.m^2" becomes
\* "s^4.A^2/kg.m^2"), q.getWithUnits(t) returns t itself as units; the two
\* return the same magnitude, and q is after the calls what it was before.
C13_GetAndGetWithUnits ==
    (Done("getWithUnits") /\ res.ok) =>
        /\ res.val.get.units = toUnitString(UnitsOf(arg.target).val)
        /\ ~HasSpace(res.val.get.units)
        /\ ~HasPowerOne(res.val.get.units)
        /\ arg.target = <<"s", "^", "4", "DOT", "A", "^", "2", " ", "/", " ", "k", "g", "^", "1", "DOT", "m", "^", "2">> => res.val.get.units = <<"s", "^", "4", "DOT", "A", "^", "2", "/", "k", "g", "DOT", "m", "^", "2">>
        /\ res.val.getWithUnits.units = arg.target
        /\ res.val.getWithUnits.magnitude = res.val.get.magnitude
        /\ res.val.quantity = NewQuantity(arg.magnitude, arg.units).val

\* 1 F has been read in "s^4.A^2 / kg^1.m^2" through both accessors
C13_Witness ==
    /\ Done("getWithUnits")
    /\ arg.magnitude = NInt(1)
    /\ arg.units = <<"F">>
    /\ arg.target = <<"s", "^", "4", "DOT", "A", "^", "2", " ", "/", " ", "k", "g", "^", "1", "DOT", "m", "^", "2">>
    /\ res.ok
    /\ res.val.get = [magnitude |-> NInt(1), units |-> <<"s", "^", "4", "DOT", "A", "^", "2", "/", "k", "g", "DOT", "m", "^", "2">>]
    /\ res.val.getWithUnits = [magnitude |-> NInt(1), units |-> arg.target]

\* the preferred derived units of getSI
PreferredUnits == {baseSIUnits[i].unit : i \in DerivedIndexes}

\* the basic exponents of a unit of the table, and their inverse
BasicOf(unit) == builtInUnits[unit].d.dimensions

InverseOf(unit) == [i \in 1..numBasicDimensions |-> -BasicOf(unit)[i]]

\* getSI of the units named has returned the units given
SIUnitsAre(units, text) ==
    (Done("getSI") /\ arg.units = units) => res.ok /\ res.val.units = text

\* the conversions to a derived unit of the tests (part_000:228-242)
DerivedUnitTests ==
    /\ SIUnitsAre(<<"k", "g", "DOT", "m", "/", "s", "^", "2">>, <<"N">>)
    /\ SIUnitsAre(<<"s", "^", "2", "/", "k", "g", "DOT", "m">>, <<"N", "^", "-", "1">>)
    /\ SIUnitsAre(<<"k", "g", "DOT", "m", "^", "2", " ", "/", " ", "A", "DOT", "s", "^", "3">>, <<"V">>)
    /\ SIUnitsAre(<<"H", "P">>, <<"W">>)
    /\ SIUnitsAre(<<"B", "T", "U">>, <<"J">>)
    /\ SIUnitsAre(<<"p", "s", "i">>, <<"P", "a">>)
    /\ SIUnitsAre(<<"C", "DOT", "A", "DOT", "s", "^", "2", "/", "k", "g", "DOT", "m", "^", "2">>, <<"S">>)

\* C14 as the specification states it: a quantity with the dimensions of a
\* preferred derived unit U has the SI units U, and a quantity with the
\* inverse dimensions has the SI units U^-1.
C14_DerivedUnitOrInverse ==
    /\ (Done("getSI") /\ res.ok) =>
           \A U \in PreferredUnits :
               /\ DimsOf(arg.units).dimensions = BasicOf(U) => res.val.units = U
               /\ DimsOf(arg.units).dimensions = InverseOf(U)
                      => res.val.units = U \o <<"^", "-", "1">>
    /\ DerivedUnitTests

\* C14, amended: a quantity with the dimensions of a preferred derived unit
\* U has the SI units U; a quantity with the inverse dimensions has the SI
\* units U^-1 unless the inverse dimensions are those of a preferred unit
\* themselves (ohm and S are inverse to each other: the dimensions of S give
\* S, those of ohm give ohm).
C14_DerivedUnitUnlessInverseNamed ==
    /\ (Done("getSI") /\ res.ok) =>
           \A U \in PreferredUnits :
               /\ DimsOf(arg.units).dimensions = BasicOf(U) => res.val.units = U
               /\ (DimsOf(arg.units).dimensions = InverseOf(U)
                       /\ \A V \in PreferredUnits : BasicOf(V) # InverseOf(U))
                      => res.val.units = U \o <<"^", "-", "1">>
    /\ DerivedUnitTests
    /\ SIUnitsAre(<<"S", "^", "-", "1">>, <<"o", "h", "m">>)
    /\ SIUnitsAre(<<"o", "h", "m", "^", "-", "1">>, <<"S">>)

\* getSI of 1 S^-1 has returned 1 ohm
C14_Witness ==
    /\ Done("getSI")
    /\ arg.units = <<"S", "^", "-", "1">>
    /\ res.ok
    /\ res.val.units = <<"o", "h", "m">>

\* getSI of the magnitude in the units named has returned the result given
SIResultIs(magnitude, units, siMagnitude, siUnits) ==
    (Done("getSI") /\ arg.magnitude = NInt(magnitude) /\ arg.units = units) =>
        res.ok /\ res.val = [magnitude |-> siMagnitude, units |-> siUnits]

\* C15: the outputs of getSI for compound dimensions: 36 km/h is 10 m/s,
\* 10 Hz is 10 s^-1, 5 V.kg^3.b^2.K^4.mol is 5 V.kg^3.K^4.mol.b^2,
\* kg.m^2.s^-2.A^-3 is H/A, kg^2.m^2.s^-4.A^-2 is kg/F, W.s^2 is J.s,
\* 5 C.K.Ah is 18000 C^2.K, ft.lb is kg.m.
C15_CompoundOutputs ==
    /\ SIResultIs(36, <<"k", "m", "/", "h">>, NInt(10), <<"m", "/", "s">>)
    /\ SIResultIs(10, <<"H", "z">>, NInt(10), <<"s", "^", "-", "1">>)
    /\ SIResultIs(5, <<"V", "DOT", "k", "g", "^", "3", "DOT", "b", "^", "2", "DOT", "K", "^", "4", "DOT", "m", "o", "l">>, NInt(5), <<"V", "DOT", "k", "g", "^", "3", "DOT", "K", "^", "4", "DOT", "m", "o", "l", "DOT", "b", "^", "2">>)
    /\ SIResultIs(5, <<"k", "g", "DOT", "m", "^", "2", "DOT", "s", "^", "-", "2", "DOT", "A", "^", "-", "3">>, NInt(5), <<"H", "/", "A">>)
    /\ SIResultIs(5, <<"k", "g", "^", "2", "DOT", "m", "^", "2", "DOT", "s", "^", "-", "4", "DOT", "A", "^", "-", "2">>, NInt(5), <<"k", "g", "/", "F">>)
    /\ SIResultIs(5, <<"W", "DOT", "s", "^", "2">>, NInt(5), <<"J", "DOT", "s">>)
    /\ SIResultIs(5, <<"C", "DOT", "K", "DOT", "A", "h">>, NInt(18000), <<"C", "^", "2", "DOT", "K">>)
    /\ SIUnitsAre(<<"f", "t", "DOT", "l", "b">>, <<"k", "g", "DOT", "m">>)

\* getSI of 5 kg.m^2.s^-2.A^-3 has returned 5 H/A
C15_Witness ==
    /\ Done("getSI")
    /\ arg.magnitude = NInt(5)
    /\ arg.units = <<"k", "g", "DOT", "m", "^", "2", "DOT", "s", "^", "-", "2", "DOT", "A", "^", "-", "3">>
    /\ res.ok
    /\ res.val = [magnitude |-> NInt(5), units |-> <<"H", "/", "A">>]

\* the custom names of a Dimensions, none being the empty list
NameList(d) == IF d.customDimensionNames.has THEN d.customDimensionNames.v ELSE <<>>

\* the same exponents and the same custom names
EqualDimensions(a, b) == a.dimensions = b.dimensions /\ NameList(a) = NameList(b)

\* the composite of the units getSI returns is that of the quantity, at
\* scale 1
SIComposite(q, c) ==
    /\ c.ok
    /\ c.val.scale = NOne
    /\ c.val.offset = NZero
    /\ EqualDimensions(c.val.dims, q.dimensions)
    /\ res.val.magnitude = q.magnitude
    /\ isDimensionless(q.dimensions) => res.val.units = <<>>

\* C16: the units getSI returns have the dimensions of the quantity and the
\* composite scale 1 (every entry of baseSIUnits has scale 1 with its
\* prefix, kg being k + g), so that the magnitude returned is the SI-base
\* magnitude of the quantity; a dimensionless quantity has the empty units.
C16_SIUnitsAtScaleOne ==
    /\ \A i \in 1..Len(baseSIUnits) :
           NMul(PrefixFactor(baseSIUnits[i]),
                NFactors(builtInUnits[baseSIUnits[i].unit].s)) = NOne
    /\ (Done("getSI") /\ res.ok) =>
           SIComposite(NewQuantity(arg.magnitude, arg.units).val,
                       CompositeOf(res.val.units))

\* getSI of 36 km/h has returned 10 m/s, and m/s has scale 1
C16_Witness ==
    /\ Done("getSI")
    /\ arg.magnitude = NInt(36)
    /\ arg.units = <<"k", "m", "/", "h">>
    /\ res.ok
    /\ res.val = [magnitude |-> NInt(10), units |-> <<"m", "/", "s">>]
    /\ ScaleOf(res.val.units) = NOne

\* C17: a.equalTo(b) holds exactly when the exponent vectors are equal entry
\* by entry, the custom name lists are equal (no list counting as the empty
\* list) and the offsets are equal; equalTo is reflexive and symmetric.
C17_EqualToIsEquality ==
    (Done("equalTo") /\ res.ok) =>
        /\ res.val.equal <=> (/\ res.val.this.dimensions = res.val.other.dimensions
                             /\ NameList(res.val.this) = NameList(res.val.other)
                             /\ res.val.this.offset = res.val.other.offset)
        /\ res.val.self
        /\ res.val.equal <=> res.val.converse

\* the names are in strictly ascending order
Ascending(names) ==
    \A i \in 1..Len(names), j \in 1..Len(names) : i < j => StrLess(names[i], names[j])

\* C18: a Dimensions the constructor accepts has 8 + (number of custom
\* names) exponents, 0 to 4 custom names in strictly ascending order and so
\* 8 to 12 exponents; fewer than 8 exponents, a number of exponents other
\* than 8 + (number of custom names), and names that are not strictly
\* ascending fail with InvalidDimensions.
C18_ConstructorAccepts ==
    Done("Dimensions") =>
        /\ res.ok =>
               /\ res.val.dimensions = arg.this.dimensions
               /\ Len(res.val.dimensions) = numBasicDimensions + Len(NameList(res.val))
               /\ Len(NameList(res.val)) \in 0..4
               /\ Ascending(NameList(res.val))
               /\ Len(res.val.dimensions) \in numBasicDimensions..(numBasicDimensions + 4)
        /\ (\/ Len(arg.this.dimensions) < numBasicDimensions
            \/ Len(arg.this.dimensions) # numBasicDimensions + Len(NameList(arg.this))
            \/ ~Ascending(NameList(arg.this)))
               => Fails(res, "InvalidDimensions")

\* (prefixFactor * unit scale)^power of one parsed unit
FactorOf(u) ==
    NPow(NMul(PrefixFactor(u), NFactors(getUnitData(u.unit, Undefined).val.s)), u.power)

\* the product of the factors of the units, from the last unit to the first
RECURSIVE ProductOfFactors(_)
ProductOfFactors(units) ==
    IF units = <<>> THEN NOne
    ELSE NMul(ProductOfFactors(SubSeq(units, 1, Len(units) - 1)), FactorOf(units[Len(units)]))

\* the sum of power * exponent of the units in basic dimension i
RECURSIVE SumOfExponents(_, _)
SumOfExponents(units, i) ==
    IF units = <<>> THEN 0
    ELSE units[1].power * getUnitData(units[1].unit, Undefined).val.d.dimensions[i]
             + SumOfExponents(Tail(units), i)

\* new Quantity(magnitude, { units }).convert(target).get() is magnitude2
ConvertsTo(magnitude, units, target, magnitude2) ==
    (Done("convert") /\ arg.magnitude = magnitude /\ arg.units = units /\ arg.target = target)
        => res.ok /\ res.val.magnitude = magnitude2

\* C19: the composite of a parsed unit list has the product of the
\* (prefixFactor * unit scale)^power of its units as its scale and the sum
\* of the power * unit dimensions as its dimensions; so 1 kWh = 3.6 MJ,
\* 1 GB = 1e9 B, 1 GiB = 2^30 B, 1 h^2 = 3600 * 3600 s^2 and
\* 500 g = 0.5 s^2⋅N/m.
C19_CompositeScaleAndDimensions ==
    /\ (Done("composite") /\ res.ok) =>
           /\ res.val.scale = ProductOfFactors(UnitsOf(arg.units).val)
           /\ \A i \in 1..numBasicDimensions :
                  res.val.dims.dimensions[i] = SumOfExponents(UnitsOf(arg.units).val, i)
    /\ (Done("composite") /\ arg.units = <<>>) =>
           res = Ok([scale |-> NOne, dims |-> Dimensionless, offset |-> NZero])
    /\ ConvertsTo(NInt(1), <<"k", "W", "h">>, <<"M", "J">>, NDec(36, -1))
    /\ ConvertsTo(NInt(1), <<"G", "B">>, <<"B">>, NDec(1, 9))
    /\ ConvertsTo(NInt(1), <<"G", "i", "B">>, <<"B">>, NPow(NInt(2), 30))
    /\ ConvertsTo(NInt(1), <<"h", "^", "2">>, <<"s", "^", "2">>, NMul(NInt(3600), NInt(3600)))
    /\ ConvertsTo(NInt(500), <<"g">>, <<"s", "^", "2", " ", "N", " ", "/", " ", "m">>, NDec(5, -1))

\* 500 g has been converted to s^2 N / m
C19_Witness ==
    /\ Done("convert")
    /\ arg.magnitude = NInt(500) /\ arg.units = <<"g">> /\ arg.target = <<"s", "^", "2", " ", "N", " ", "/", " ", "m">>
    /\ res = Ok([magnitude |-> NDec(5, -1), units |-> <<"s", "^", "2", "DOT", "N", "/", "m">>])

\* the score the candidate t leaves of the exponents rem, and whether it is
\* lower than the score of rem
ScoreAfter(rem, t) == SumAbs(Without(rem, SIDimensions, t))

Improves(rem, t) == ScoreAfter(rem, t) < SumAbs(rem)

\* the order in which the list is scanned: by position, +1 before -1
ScannedBefore(u, t) == u[1] < t[1] \/ (u[1] = t[1] /\ u[2] > t[2])

\* among candidates that leave the same score: +1 before -1, then by position
PreferredTo(t, u) == t[2] > u[2] \/ (t[2] = u[2] /\ t[1] < u[1])

\* a round of the loop of getSI, and its end
Round == pc = "picking" /\ pc' = "picking"

Ended == pc = "picking" /\ pc' = "done"

\* the candidates are the preferred derived units N, Pa, J, W, C, V, F, ohm,
\* S, Wb, T, H in this order
PreferredOrder ==
    [i \in DerivedIndexes |-> baseSIUnits[i].unit] =
        [i \in DerivedIndexes |->
            <<<<"N">>, <<"P", "a">>, <<"J">>, <<"W">>, <<"C">>, <<"V">>, <<"F">>, <<"o", "h", "m">>, <<"S">>, <<"W", "b">>, <<"T">>, <<"H">>>>[i - NumBaseUnits]]

\* the base units kg, m, s, K, A, mol, b with the slots they measure
BaseUnitSlots ==
    << <<Some(<<"k">>), <<"g">>, 1>>, <<Undefined, <<"m">>, 2>>, <<Undefined, <<"s">>, 3>>,
       <<Undefined, <<"K">>, 4>>, <<Undefined, <<"A">>, 5>>, <<Undefined, <<"m", "o", "l">>, 6>>,
       <<Undefined, <<"b">>, 8>> >>

NonZero(units) == SelectSeq(units, LAMBDA u : u.power # 0)

\* the units of the state s of the loop: the derived units committed, the
\* remaining exponents in base units, the custom dimensions by slot
UnitsAtEnd(s) ==
    NonZero(s.list
            \o [i \in 1..Len(BaseUnitSlots) |->
                   ParsedUnit(BaseUnitSlots[i][1], BaseUnitSlots[i][2],
                              s.rem[BaseUnitSlots[i][3]])]
            \o CustomUnits(s.quantity.dimensions))

\* the round has subtracted the candidate it committed, and the score is
\* lower than before
Subtracted(s, t, next) ==
    /\ t \in Tries
    /\ next.rem = Without(s.rem, SIDimensions, t)
    /\ SumAbs(next.rem) < SumAbs(s.rem)
    /\ SumAbs(next.rem) >= 0

\* the loop ends when no candidate lowers the score, with the units of C20
EndsWell(s, result) ==
    /\ \A u \in Tries : ~Improves(s.rem, u)
    /\ result.units = toUnitString(UnitsAtEnd(s))

\* the rounds made and the score that is left are together no more than the
\* score of the quantity: the loop makes no more rounds than that
Bounded ==
    (pc = "picking") =>
        /\ SumAbs(res.val.rem) >= 0
        /\ res.val.rounds + SumAbs(res.val.rem)
               <= SumAbs(SubSeq(res.val.quantity.dimensions.dimensions, 1, numBasicDimensions))

\* C20 as the specification states it: every round of the loop commits the
\* first candidate of the scan (N, Pa, J, W, C, V, F, ohm, S, Wb, T, H, each
\* with +1 and -1) that lowers the sum of the absolute exponents; the loop
\* ends when no candidate lowers it, the remainder is written in the base
\* units kg, m, s, K, A, mol, b and the custom units by slot; the loop
\* terminates, the sum being a natural number that every round lowers.
C20_CommitsFirstImproving ==
    /\ [](PreferredOrder)
    /\ [][Round => /\ Subtracted(res.val, res'.val.last, res'.val)
                   /\ \A u \in Tries :
                          ScannedBefore(u, res'.val.last) => ~Improves(res.val.rem, u)]_vars
    /\ [][Ended => EndsWell(res.val, res'.val)]_vars
    /\ [](Bounded)

\* C20, amended: every round of the loop commits, of the candidates N, Pa,
\* J, W, C, V, F, ohm, S, Wb, T, H with the powers +1 and -1, the one that
\* leaves the lowest sum of absolute exponents, provided it is lower than
\* the current sum (among equals +1 before -1, then the earlier unit); the
\* loop ends when no candidate lowers the sum, the remainder is written in
\* the base units kg, m, s, K, A, mol, b and the custom units by slot; the
\* loop terminates, the sum being a natural number that every round lowers
\* (it makes no more rounds than the sum of the quantity).
C20_CommitsBestImproving ==
    /\ [](PreferredOrder)
    /\ [][Round => /\ Subtracted(res.val, res'.val.last, res'.val)
                   /\ \A u \in Tries \ {res'.val.last} :
                          \/ ScoreAfter(res.val.rem, u) > ScoreAfter(res.val.rem, res'.val.last)
                          \/ /\ ScoreAfter(res.val.rem, u) = ScoreAfter(res.val.rem, res'.val.last)
                             /\ PreferredTo(res'.val.last, u)]_vars
    /\ [][Ended => EndsWell(res.val, res'.val)]_vars
    /\ [](Bounded)

\* the loop has committed H for kg.m^2.s^-2.A^-3, which N would have lowered
\* as well, and A^-1 remains
C20_Witness ==
    /\ pc = "picking"
    /\ op = "pickUnits"
    /\ arg.units = <<"k", "g", "DOT", "m", "^", "2", "DOT", "s", "^", "-", "2", "DOT", "A", "^", "-", "3">>
    /\ res.val.list = <<ParsedUnit(Undefined, <<"H">>, 1)>>
    /\ res.val.rem = <<0, 0, 0, 0, -1, 0, 0, 0>>
    /\ Improves(<<1, 2, -2, 0, -3, 0, 0, 0>>, <<NumBaseUnits + 1, 1>>)

\* the two-character binary prefixes Ki to Yi
BinaryPrefixKeys == {<<"K", "i">>, <<"M", "i">>, <<"G", "i">>, <<"T", "i">>, <<"P", "i">>, <<"E", "i">>, <<"Z", "i">>, <<"Y", "i">>}

\* the number of the interpretations (exact name, metric prefix + prefixable
\* unit, binary prefix + binary-prefixable unit) the built-in table admits
\* for a token
Interpretations(token) ==
    (IF IsExact(token, builtInUnits) THEN 1 ELSE 0)
        + (IF IsMetric(token, builtInUnits) THEN 1 ELSE 0)
        + (IF IsBinary(token, builtInUnits) THEN 1 ELSE 0)

\* the result is the one of every interpretation the token admits
EveryInterpretation(r, token) ==
    /\ IsExact(token, builtInUnits) => Resolved(r, Undefined, token)
    /\ IsMetric(token, builtInUnits) => Resolved(r, Some(SubSeq(token, 1, 1)), Tail(token))
    /\ IsBinary(token, builtInUnits)
           => Resolved(r, Some(SubSeq(token, 1, 2)), SubSeq(token, 3, Len(token)))

\* C21: over the built-in unit table and the prefix table no token admits
\* more than one of the interpretations exact name, one-character metric
\* prefix + prefixable unit, two-character binary prefix + binary-prefixable
\* unit: a prefix key has one character, or two and is one of Ki to Yi, "da"
\* is no prefix, and the result of the parser is that of every
\* interpretation the token admits, whatever the order they are tried in.
C21_InterpretationsDisjoint ==
    /\ \A k \in DOMAIN prefixes : Len(k) = 1 \/ (Len(k) = 2 /\ k \in BinaryPrefixKeys)
    /\ BinaryPrefixKeys \subseteq DOMAIN prefixes
    /\ <<"d", "a">> \notin DOMAIN prefixes
    /\ (Done("parseSingleUnit") /\ ~arg.additionalUnits.has) =>
           /\ Interpretations(TokenOf(arg.unitStr)) <= 1
           /\ ~Fails(res, "InvalidExponent")
                  => EveryInterpretation(res, TokenOf(arg.unitStr))

\* "min" has been parsed as the minute: m is a prefix and in is a unit, but
\* not a prefixable one
C21_Witness ==
    /\ Done("parseSingleUnit")
    /\ ~arg.additionalUnits.has
    /\ arg.unitStr = <<"m", "i", "n">>
    /\ res = Ok(ParsedUnit(Undefined, <<"m", "i", "n">>, 1))
    /\ <<"m">> \in DOMAIN prefixes
    /\ <<"i", "n">> \in DOMAIN builtInUnits
    /\ Interpretations(<<"m", "i", "n">>) = 1

\* the exponent the unit u of a parsed list adds in the custom dimension name
CustomPart(u, name) ==
    u.power * CustomExponent(getUnitData(u.unit, Undefined).val.d, name)

\* the sum of the exponents the units add in the custom dimension name
RECURSIVE CustomTotal(_, _)
CustomTotal(units, name) ==
    IF units = <<>> THEN 0
    ELSE CustomPart(units[Len(units)], name)
             + CustomTotal(SubSeq(units, 1, Len(units) - 1), name)

\* the custom names of the units of a parsed list
NamesIn(units) ==
    UNION {NamesOf(getUnitData(units[i].unit, Undefined).val.d) : i \in 1..Len(units)}

\* d is a Dimensions the constructor accepts, with the names in strictly
\* ascending order: those of the units whose exponents do not sum to 0,
\* each with the sum as its exponent
UnionOfCustom(d, units) ==
    /\ Dimensions(d.dimensions, d.customDimensionNames, d.offset) = Ok(d)
    /\ Ascending(NameList(d))
    /\ NamesOf(d) = {name \in NamesIn(units) : CustomTotal(units, name) # 0}
    /\ Len(d.dimensions) = numBasicDimensions + Len(NameList(d))
    /\ \A i \in 1..Len(NameList(d)) :
           d.dimensions[numBasicDimensions + i] = CustomTotal(units, NameList(d)[i])

\* C22: the combination of dimensions with custom dimensions is a valid
\* Dimensions whose custom names are the strictly ascending union of the
\* names of the operands with summed exponents, without the slots that sum
\* to 0 and their names; the composite of "_pax/h._dir" has the dimensions
\* (time -1, dir -1, pax +1, names dir, pax) and the scale 1/3600 of pphpd.
C22_CustomDimensionsCombine ==
    /\ (Done("composite") /\ res.ok) =>
           UnionOfCustom(res.val.dims, UnitsOf(arg.units).val)
    /\ (Done("composite") /\ arg.units = <<"_", "p", "a", "x", "/", "h", "DOT", "_", "d", "i", "r">>) =>
           /\ res.ok
           /\ equalTo(res.val.dims, builtInUnits[<<"p", "p", "h", "p", "d">>].d)
           /\ res.val.dims.dimensions = <<0, 0, -1, 0, 0, 0, 0, 0, -1, 1>>
           /\ NameList(res.val.dims) = <<<<"d", "i", "r">>, <<"p", "a", "x">>>>
           /\ res.val.scale = NFrac(1, 3600)
           /\ res.val.scale = NFactors(builtInUnits[<<"p", "p", "h", "p", "d">>].s)

\* the composite of "_b/_a._c" has been made: the names a, b, c in this
\* order with the exponents -1, 1, -1
C22_Witness ==
    /\ Done("composite")
    /\ arg.units = <<"_", "b", "/", "_", "a", "DOT", "_", "c">>
    /\ res.ok
    /\ NameList(res.val.dims) = <<<<"a">>, <<"b">>, <<"c">>>>
    /\ res.val.dims.dimensions = <<0, 0, 0, 0, 0, 0, 0, 0, -1, 1, -1>>

\* the units of the list carry custom dimensions, and the composite d has
\* none left
AllCancelled(d, units) == NamesIn(units) # {} /\ NameList(d) = <<>>

\* the conversion of the units to the target has not failed with
\* InvalidConversion
Convertible(units, target) ==
    (Done("convert") /\ arg.units = units /\ arg.target = target)
        => res.ok /\ ~Fails(res, "InvalidConversion")

\* C23: when the composition cancels every custom dimension of a unit list
\* ("pphpd._dir/_pax", "_pax/_pax"), the resulting Dimensions is equalTo the
\* Dimensions of the same basic exponents built without custom names (that
\* of Hz, and Dimensionless), and the quantity converts to the plain unit
\* (Hz, and the empty unit) without InvalidConversion.
C23_CancelledCustomEqualsPlain ==
    /\ (Done("composite") /\ res.ok /\ AllCancelled(res.val.dims, UnitsOf(arg.units).val)) =>
           equalTo(res.val.dims,
                   NewDimensions(SubSeq(res.val.dims.dimensions, 1, numBasicDimensions)))
    /\ (Done("composite") /\ arg.units = <<"p", "p", "h", "p", "d", "DOT", "_", "d", "i", "r", "/", "_", "p", "a", "x">>) =>
           res.ok /\ equalTo(res.val.dims, builtInUnits[<<"H", "z">>].d)
    /\ (Done("composite") /\ arg.units = <<"_", "p", "a", "x", "/", "_", "p", "a", "x">>) =>
           res.ok /\ equalTo(res.val.dims, Dimensionless)
    /\ Convertible(<<"p", "p", "h", "p", "d", "DOT", "_", "d", "i", "r", "/", "_", "p", "a", "x">>, <<"H", "z">>)
    /\ Convertible(<<"_", "p", "a", "x", "/", "_", "p", "a", "x">>, <<>>)
=============================================================================
